---- MODULE Spec2Model ----
(***************************************************************************)
(* Model of the device command/response exchange of devices_service:      *)
(* sendDeviceCommand (src/src/services/deviceService.ts) running on the   *)
(* shared MQTT client (src/src/utils/mqtt_client.ts).                     *)
(*                                                                         *)
(* Strings that the code transforms character by character (MAC           *)
(* addresses, topics) are sequences of one-character strings.             *)
(***************************************************************************)
EXTENDS Integers, Sequences, FiniteSets, TLC

(***************************************************************************)
(* Bounds of the model.                                                    *)
(***************************************************************************)
\* calls of sendDeviceCommand
MaxCalls == 2
\* messages the client receives
MaxDeliver == 2
\* timeout periods after the first during which a call can still start
MaxTicks == 0
\* transport requests (subscribe, publish) that fail
MaxErrors == 1

(***************************************************************************)
(* Program constants.                                                      *)
(***************************************************************************)
TimeoutMs == 5000

MaxTime == MaxTicks * TimeoutMs

Calls == 1..MaxCalls

(***************************************************************************)
(* Inputs.                                                                 *)
(***************************************************************************)
MacColon == <<"0","0",":","1","1",":","2","2",":","3","3",":","4","4",":","5","5">>
MacHyphen == <<"0","0","-","1","1","-","2","2","-","3","3","-","4","4","-","5","5">>
MacOther == <<"A","A",":","B","B",":","C","C",":","D","D",":","E","E",":","F","F">>
MacInputs == {MacColon, MacHyphen, MacOther}

Commands == {"command1", "command2"}

PayloadCommand1 == "{\"responseTo\":\"command1\"}"
PayloadCommand2 == "{\"responseTo\":\"command2\"}"
PayloadInvalid == "invalid-json"
Payloads == {PayloadCommand1, PayloadCommand2, PayloadInvalid}

\* a reply in which the device reports an error of its own
PayloadDeviceError == "{\"error\":true,\"message\":\"busy\"}"

SubscribeErrors == {"Access denied"}
PublishErrors == {"Network failure"}

\* outcome of a transport request: acknowledged, or failed with the error
\* handed to the callback either inside the call or in a later turn
TransportModes == {"ok", "errSync", "errAsync"}

(***************************************************************************)
(* String helpers.                                                         *)
(***************************************************************************)
LowerChars == <<"a","b","c","d","e","f","g","h","i","j","k","l","m",
                "n","o","p","q","r","s","t","u","v","w","x","y","z">>
UpperChars == <<"A","B","C","D","E","F","G","H","I","J","K","L","M",
                "N","O","P","Q","R","S","T","U","V","W","X","Y","Z">>

ToUpperChar(ch) ==
    IF \E i \in 1..Len(LowerChars) : LowerChars[i] = ch
    THEN UpperChars[CHOOSE i \in 1..Len(LowerChars) : LowerChars[i] = ch]
    ELSE ch

IsSeparator(ch) == ch = ":" \/ ch = "-"

NotSeparator(ch) == ~IsSeparator(ch)

\* macAddress.replace(/[:\-]/g, "") without the upper-casing
SanitizeKeepCase(mac) == SelectSeq(mac, NotSeparator)

\* macAddress.replace(/[:\-]/g, "").toUpperCase()
Sanitize(mac) ==
    LET kept == SelectSeq(mac, NotSeparator)
    IN [i \in 1..Len(kept) |-> ToUpperChar(kept[i])]

DevicePrefix == <<"d","e","v","i","c","e">>
RequestSuffix == <<"/","r","e","q","u","e","s","t">>
ResponseSuffix == <<"/","r","e","s","p","o","n","s","e">>

RequestTopic(mac) == DevicePrefix \o Sanitize(mac) \o RequestSuffix
ResponseTopic(mac) == DevicePrefix \o Sanitize(mac) \o ResponseSuffix

(***************************************************************************)
(* JSON.parse on the payloads of the model: a value, or a SyntaxError.     *)
(***************************************************************************)
\* telemetry of a device: two samples with metrics, and a status without
PayloadSampleCalm ==
    "{\"status\":\"Actif\",\"metrics\":{\"temperature\":60,\"cpu_percent\":10,\"ram_percent\":10},\"timestamp\":5,\"device_id\":\"esp\",\"online\":true}"
PayloadSampleHot ==
    "{\"status\":\"Actif\",\"metrics\":{\"temperature\":75,\"cpu_percent\":10,\"ram_percent\":10},\"timestamp\":0,\"online\":true}"
PayloadStatusOnly == "{\"status\":\"Actif\",\"online\":true}"
TelemetryPayloads ==
    {PayloadSampleCalm, PayloadSampleHot, PayloadStatusOnly, PayloadInvalid}

IsJson(p) ==
    p \in {PayloadCommand1, PayloadCommand2, PayloadDeviceError,
           PayloadSampleCalm, PayloadSampleHot, PayloadStatusOnly}

JsonParse(p) ==
    CASE p = PayloadCommand1 -> [responseTo |-> "command1"]
      [] p = PayloadCommand2 -> [responseTo |-> "command2"]
      [] p = PayloadDeviceError -> [error |-> TRUE, message |-> "busy"]
      [] p = PayloadSampleCalm ->
             [status |-> "Actif",
              metrics |-> [temperature |-> 60, cpu_percent |-> 10, ram_percent |-> 10],
              timestamp |-> 5, device_id |-> "esp", online |-> TRUE]
      [] p = PayloadSampleHot ->
             [status |-> "Actif",
              metrics |-> [temperature |-> 75, cpu_percent |-> 10, ram_percent |-> 10],
              timestamp |-> 0, online |-> TRUE]
      [] p = PayloadStatusOnly -> [status |-> "Actif", online |-> TRUE]

(***************************************************************************)
(* Result values handed to resolve().                                      *)
(***************************************************************************)
NoResult == [pending |-> TRUE]

SubscriptionFailedResult(reason) ==
    [error |-> TRUE, message |-> "Subscription failed: " \o reason]

PublishFailedResult(reason) ==
    [error |-> TRUE, message |-> "Publish failed: " \o reason]

TimeoutResult ==
    [error |-> TRUE, message |-> "ODB is not activated or not responding"]

(***************************************************************************)
(* State.                                                                  *)
(*   calls     : per call of sendDeviceCommand, the closure of its promise *)
(*   client    : the shared MQTT client: subscribed topics, the listeners  *)
(*               of its "message" event in registration order, and the     *)
(*               messages published                                        *)
(*   now       : the clock, in ms                                          *)
(*   delivered : number of messages the client received                    *)
(*   faults    : number of exceptions thrown out of a message listener     *)
(*   errors    : number of transport errors that occurred                  *)
(***************************************************************************)
VARIABLES calls, client, now, delivered, faults, errors

(***************************************************************************)
(* State of the rest of the service.                                       *)
(*   ident, connected : the identifier handed to sendDeviceCommand and the *)
(*               client's connected flag at that moment                    *)
(*   store     : deviceHeartbeatStore, device key -> latest sample         *)
(*   risky     : riskyDevices, device key -> verdict                       *)
(*   dbStatus  : the status column of the device table                     *)
(*   interventions : the rows of the intervention table                    *)
(*   escalations : the calls of setDeviceDefective / setDeviceOutOfService *)
(*               made by the monitor, with the step each has reached       *)
(*   wall      : Date.now(), in ms                                         *)
(*   http      : the request POST /devices/control is handling, and its   *)
(*               response                                                  *)
(*   inbound   : the telemetry messages delivered so far: the last one    *)
(*               and how many were discarded                             *)
(*   analysed  : the last call of analyzeMetrics: its arguments and the  *)
(*               verdict the device had before it                        *)
(***************************************************************************)
VARIABLES ident, connected, store, risky, dbStatus, interventions,
          escalations, wall, analysed, http, inbound

correlatorVars == <<calls, client, now, delivered, faults, errors>>
callerVars == <<ident, connected, http, inbound>>
monitorVars == <<store, risky, dbStatus, interventions, escalations, wall, analysed>>

vars == <<calls, client, now, delivered, faults, errors,
          ident, connected, store, risky, dbStatus, interventions,
          escalations, wall, analysed, http, inbound>>

IdleCall ==
    [pc |-> "idle", command |-> "", requestTopic |-> <<>>, responseTopic |-> <<>>,
     isHandled |-> FALSE, result |-> NoResult, resolvedBy |-> "none",
     timer |-> "none", deadline |-> 0,
     subCb |-> "none", subErr |-> "", pubCb |-> "none", pubErr |-> "",
     removals |-> 0, unsubscribes |-> 0, publishes |-> 0,
     firstMsg |-> "", received |-> 0]

CorrelatorInit ==
    /\ calls = [c \in Calls |-> IdleCall]
    /\ client = [subs |-> {}, listeners |-> <<>>, outbox |-> <<>>]
    /\ now = 0
    /\ delivered = 0
    /\ faults = 0
    /\ errors = 0

NoRequest == [state |-> "none"]

NoInbound == [count |-> 0, discarded |-> 0]

OutsideInit ==
    /\ http = NoRequest
    /\ inbound = NoInbound

CallerInit ==
    /\ ident = <<>>
    /\ connected = TRUE
    /\ OutsideInit

NotAnalysed == [analysed |-> FALSE]

DeviceIds == {1, 2}

\* an object without properties
EmptyObject == [k \in {} |-> 0]

MonitorInit ==
    /\ store = EmptyObject
    /\ risky = EmptyObject
    /\ dbStatus = [d \in DeviceIds |-> "connected"]
    /\ interventions = <<>>
    /\ escalations = <<>>
    /\ wall = 0
    /\ analysed = NotAnalysed

Init == CorrelatorInit /\ CallerInit /\ MonitorInit

\* The promise of setDeviceDefective / setDeviceOutOfService is neither
\* awaited nor caught by monitorDeviceHeartbeats: when a storage call of an
\* escalation rejects, the rejection has no handler and the process ends.
\* The same holds for the promise of sendDeviceCommand that sendStatusRequest
\* drops, which is rejected when requestDeviceStatus hands it no address.
\* Nothing runs from then on.
ProcessRuns ==
    /\ \A i \in 1..Len(escalations) : escalations[i].pc # "failed"
    /\ http.state # "ended"

\* the part of the state a handler or a callback runs on
World == [calls |-> calls, client |-> client, thrown |-> FALSE, store |-> store]

(***************************************************************************)
(* The closures of one call.                                               *)
(***************************************************************************)
CommandListener(c) == [kind |-> "command", call |-> c]

RECURSIVE RemoveFirst(_, _)
RemoveFirst(s, x) ==
    IF s = <<>> THEN <<>>
    ELSE IF Head(s) = x THEN Tail(s)
    ELSE <<Head(s)>> \o RemoveFirst(Tail(s), x)

\* mqttClient.removeListener("message", messageHandler)
RemoveListener(w, c) ==
    [w EXCEPT !.client.listeners = RemoveFirst(@, CommandListener(c)),
              !.calls[c].removals = @ + 1]

\* an unsubscribe that drops every subscription of the client
UnsubscribeAll(w, c) ==
    [w EXCEPT !.client.subs = {},
              !.calls[c].unsubscribes = @ + 1]

\* mqttClient.unsubscribe(responseTopic, cb): the client has one subscription
\* per topic, whoever asked for it
Unsubscribe(w, c) ==
    [w EXCEPT !.client.subs = @ \ {w.calls[c].responseTopic},
              !.calls[c].unsubscribes = @ + 1]

cleanup(w, c) == Unsubscribe(RemoveListener(w, c), c)

\* a result that every later resolve overwrites
resolveOverwrite(w, c, value, by) ==
    [w EXCEPT !.calls[c].result = value,
              !.calls[c].resolvedBy = by]

\* resolve(value): a promise keeps the first value it is resolved with
resolve(w, c, value, by) ==
    IF w.calls[c].result = NoResult
    THEN [w EXCEPT !.calls[c].result = value,
                   !.calls[c].resolvedBy = by]
    ELSE w

\* clearTimeout(timeout)
ClearTimeout(w, c) ==
    IF w.calls[c].timer = "armed"
    THEN [w EXCEPT !.calls[c].timer = "cleared"]
    ELSE w

\* messageHandler without the test of the topic
messageHandlerAnyTopic(w, c, topic, message) ==
    IF ~w.calls[c].isHandled
    THEN LET w1 == ClearTimeout([w EXCEPT !.calls[c].isHandled = TRUE], c)
         IN IF IsJson(message)
            THEN resolve(cleanup(w1, c), c, JsonParse(message), "reply")
            ELSE [w1 EXCEPT !.thrown = TRUE]
    ELSE w

messageHandler(w, c, topic, message) ==
    IF topic = w.calls[c].responseTopic /\ ~w.calls[c].isHandled
    THEN LET w1 == ClearTimeout([w EXCEPT !.calls[c].isHandled = TRUE], c)
         IN IF IsJson(message)
            THEN resolve(cleanup(w1, c), c, JsonParse(message), "reply")
            ELSE [w1 EXCEPT !.thrown = TRUE]
    ELSE w

\* the callback of mqttClient.subscribe, called with an error
subscribeFailed(w, c, reason) ==
    LET w1 == [w EXCEPT !.calls[c].isHandled = TRUE, !.calls[c].subCb = "failed",
                        !.calls[c].subErr = reason]
    IN resolve(cleanup(w1, c), c, SubscriptionFailedResult(reason), "subscribe")

\* a publish failure that resolves without tearing the subscription down
publishFailedNoCleanup(w, c, reason) ==
    LET w1 == [w EXCEPT !.calls[c].isHandled = TRUE, !.calls[c].pubCb = "failed",
                        !.calls[c].pubErr = reason]
    IN resolve(w1, c, PublishFailedResult(reason), "publish")

\* the callback of mqttClient.publish, called with an error
publishFailed(w, c, reason) ==
    LET w1 == [w EXCEPT !.calls[c].isHandled = TRUE, !.calls[c].pubCb = "failed",
                        !.calls[c].pubErr = reason]
    IN resolve(cleanup(w1, c), c, PublishFailedResult(reason), "publish")

\* a timeout that resolves without running cleanup
timeoutExpiredNoCleanup(w, c) ==
    LET w0 == [w EXCEPT !.calls[c].timer = "fired"]
    IN IF ~w0.calls[c].isHandled
       THEN resolve([w0 EXCEPT !.calls[c].isHandled = TRUE],
                    c, TimeoutResult, "timeout")
       ELSE w0

\* the callback of setTimeout
timeoutExpired(w, c) ==
    LET w0 == [w EXCEPT !.calls[c].timer = "fired"]
    IN IF ~w0.calls[c].isHandled
       THEN resolve(cleanup([w0 EXCEPT !.calls[c].isHandled = TRUE], c),
                    c, TimeoutResult, "timeout")
       ELSE w0

(***************************************************************************)
(* The executor of the promise of sendDeviceCommand, up to its return.     *)
(***************************************************************************)
doSubscribe(w, c, mode, reason) ==
    CASE mode = "ok" ->
            [w EXCEPT !.client.subs = @ \cup {w.calls[c].responseTopic},
                      !.calls[c].subCb = "ok"]
      [] mode = "errSync" -> subscribeFailed(w, c, reason)
      [] mode = "errAsync" ->
            [w EXCEPT !.calls[c].subCb = "pending", !.calls[c].subErr = reason]

doPublish(w, c, mode, reason) ==
    LET w1 == [w EXCEPT !.client.outbox =
                            Append(@, [topic |-> w.calls[c].requestTopic,
                                       command |-> w.calls[c].command]),
                        !.calls[c].publishes = @ + 1]
    IN CASE mode = "ok" -> [w1 EXCEPT !.calls[c].pubCb = "ok"]
         [] mode = "errSync" -> publishFailed(w1, c, reason)
         [] mode = "errAsync" ->
               [w1 EXCEPT !.calls[c].pubCb = "pending", !.calls[c].pubErr = reason]

sendDeviceCommand(w, c, mac, command, subMode, subReason, pubMode, pubReason, t) ==
    LET w0 == [w EXCEPT !.calls[c] =
                   [IdleCall EXCEPT !.pc = "running", !.command = command,
                                    !.requestTopic = RequestTopic(mac),
                                    !.responseTopic = ResponseTopic(mac)]]
        w1 == doSubscribe(w0, c, subMode, subReason)
        w2 == doPublish(w1, c, pubMode, pubReason)
        w3 == [w2 EXCEPT !.client.listeners = Append(@, CommandListener(c))]
    IN [w3 EXCEPT !.calls[c].timer = "armed", !.calls[c].deadline = t + TimeoutMs]

(***************************************************************************)
(* The listener of subscribeToDeviceCommunication.                         *)
(***************************************************************************)
\* object[key] = value, and delete object[key]
Put(object, key, value) ==
    [k \in DOMAIN object \cup {key} |-> IF k = key THEN value ELSE object[k]]

Delete(object, key) == [k \in DOMAIN object \ {key} |-> object[k]]

\* deviceId.toString() and Number(deviceId)
DeviceKey(d) == ToString(d)

DeviceNumber(key) == CHOOSE d \in DeviceIds : DeviceKey(d) = key

\* `device${deviceId}` for the ids of the model, which have one digit
DeviceKeyChars(d) == <<DeviceKey(d)>>

StatusTopic(d) == DevicePrefix \o DeviceKeyChars(d) \o RequestSuffix
HeartbeatTopic(d) == DevicePrefix \o DeviceKeyChars(d) \o ResponseSuffix

\* handleHeartbeatMessage with the fields of the stored sample kept when the
\* new one lacks them
handleHeartbeatMessageMerge(table, deviceId, heartbeatData) ==
    IF deviceId \in DOMAIN table
    THEN Put(table, deviceId,
             [f \in DOMAIN table[deviceId] \cup DOMAIN heartbeatData |->
                 IF f \in DOMAIN heartbeatData THEN heartbeatData[f]
                 ELSE table[deviceId][f]])
    ELSE Put(table, deviceId, heartbeatData)

\* deviceHeartbeatStore[deviceId] = heartbeatData; the sample is not analysed
handleHeartbeatMessage(table, deviceId, heartbeatData) ==
    Put(table, deviceId, heartbeatData)

\* handleStatusMessage: a status with metrics is stored as a sample
handleStatusMessage(table, deviceId, status, t) ==
    IF "metrics" \in DOMAIN status
    THEN handleHeartbeatMessage(table, deviceId,
             [status |-> status.status,
              metrics |-> status.metrics,
              timestamp |-> IF "timestamp" \in DOMAIN status /\ status.timestamp # 0
                            THEN status.timestamp ELSE t \div 1000,
              device_id |-> deviceId,
              online |-> status.online])
    ELSE table

TelemetryListener(d) == [kind |-> "telemetry", deviceId |-> d]

\* the message listener of subscribeToDeviceCommunication without its try
telemetryListenerNoCatch(w, d, topic, message, t) ==
    IF ~IsJson(message) THEN [w EXCEPT !.thrown = TRUE]
    ELSE IF topic = StatusTopic(d)
    THEN [w EXCEPT !.store = handleStatusMessage(@, DeviceKey(d), JsonParse(message), t)]
    ELSE IF topic = HeartbeatTopic(d)
    THEN [w EXCEPT !.store = handleHeartbeatMessage(@, DeviceKey(d), JsonParse(message))]
    ELSE w

\* the message listener of subscribeToDeviceCommunication(d); t is Date.now()
telemetryListener(w, d, topic, message, t) ==
    IF ~IsJson(message) THEN w
    ELSE IF topic = StatusTopic(d)
    THEN [w EXCEPT !.store = handleStatusMessage(@, DeviceKey(d), JsonParse(message), t)]
    ELSE IF topic = HeartbeatTopic(d)
    THEN [w EXCEPT !.store = handleHeartbeatMessage(@, DeviceKey(d), JsonParse(message))]
    ELSE w

\* the message listener subscribe(topic, callback) of utils/mqtt_client
\* registers
UtilityListener == [kind |-> "other"]

\* it hands the parsed message to the callback of its caller inside a try:
\* nothing is thrown into emit and nothing of the state here is touched
utilityListener(w, topic, message) == w

(***************************************************************************)
(* EventEmitter.emit("message", topic, message): the listeners registered  *)
(* when the event is emitted run in registration order; an exception       *)
(* thrown by a listener leaves emit and the later listeners do not run.    *)
(***************************************************************************)
RECURSIVE emit(_, _, _, _)
emit(w, ls, topic, message) ==
    IF ls = <<>> \/ w.thrown THEN w
    ELSE emit(IF Head(ls).kind = "command"
              THEN messageHandler(w, Head(ls).call, topic, message)
              ELSE IF Head(ls).kind = "telemetry"
              THEN telemetryListener(w, Head(ls).deviceId, topic, message, wall)
              ELSE utilityListener(w, topic, message),
              Tail(ls), topic, message)

(***************************************************************************)
(* Actions.                                                                *)
(***************************************************************************)
ErrorCount(subMode, pubMode) ==
    (IF subMode = "ok" THEN 0 ELSE 1) + (IF pubMode = "ok" THEN 0 ELSE 1)

Commit(w) ==
    /\ calls' = w.calls
    /\ client' = w.client
    /\ faults' = faults + (IF w.thrown THEN 1 ELSE 0)

\* Devices and commands are interchangeable, so the first call is made to
\* the first device with the first command; the later calls choose freely.
FirstOr(c, first, any) == IF c = 1 THEN first ELSE any

SendDeviceCommand(c) ==
    /\ ProcessRuns
    /\ calls[c].pc = "idle"
    /\ \A d \in Calls : d < c => calls[d].pc # "idle"
    /\ now <= MaxTime
    /\ \E mac \in FirstOr(c, {MacColon, MacHyphen}, MacInputs),
          command \in FirstOr(c, {"command1"}, Commands),
          subMode \in TransportModes, pubMode \in TransportModes,
          subReason \in SubscribeErrors, pubReason \in PublishErrors :
          /\ errors + ErrorCount(subMode, pubMode) <= MaxErrors
          /\ errors' = errors + ErrorCount(subMode, pubMode)
          /\ Commit(sendDeviceCommand(World, c, mac, command,
                                      subMode, subReason, pubMode, pubReason, now))
    /\ UNCHANGED <<now, delivered>>
    /\ UNCHANGED <<callerVars, monitorVars>>

SubscribeCallback(c) ==
    /\ ProcessRuns
    /\ calls[c].pc = "running"
    /\ calls[c].subCb = "pending"
    /\ Commit(subscribeFailed(World, c, calls[c].subErr))
    /\ UNCHANGED <<now, delivered, errors>>
    /\ UNCHANGED <<callerVars, monitorVars>>

PublishCallback(c) ==
    /\ ProcessRuns
    /\ calls[c].pc = "running"
    /\ calls[c].pubCb = "pending"
    /\ Commit(publishFailed(World, c, calls[c].pubErr))
    /\ UNCHANGED <<now, delivered, errors>>
    /\ UNCHANGED <<callerVars, monitorVars>>

\* each call records the first message that arrived on its response topic
\* while it was unresolved, and how many arrived since it started
NoteDelivery(w, topic, message) ==
    [w EXCEPT !.calls = [c \in Calls |->
        IF w.calls[c].pc = "running" /\ w.calls[c].responseTopic = topic
        THEN [w.calls[c] EXCEPT
                 !.received = @ + 1,
                 !.firstMsg = IF @ = "" /\ w.calls[c].result = NoResult
                              THEN message ELSE @]
        ELSE w.calls[c]]]

DeliverMessage ==
    /\ ProcessRuns
    /\ delivered < MaxDeliver
    /\ \E topic \in client.subs, message \in Payloads :
          /\ delivered' = delivered + 1
          /\ Commit(emit(NoteDelivery(World, topic, message),
                         client.listeners, topic, message))
    /\ UNCHANGED <<now, errors>>
    /\ UNCHANGED <<callerVars, monitorVars>>

TimerDue(c) == calls[c].timer = "armed" /\ calls[c].deadline <= now

TimeoutFires(c) ==
    /\ ProcessRuns
    /\ TimerDue(c)
    /\ Commit(timeoutExpired(World, c))
    /\ UNCHANGED <<now, delivered, errors>>
    /\ UNCHANGED <<callerVars, monitorVars>>

\* The clock advances to the next instant at which a timer can be due, while
\* a timer is armed and once the timers that are due have run.
Tick ==
    /\ ProcessRuns
    /\ now + TimeoutMs <= MaxTime + TimeoutMs
    /\ \E c \in Calls : calls[c].timer = "armed"
    /\ \A c \in Calls : ~TimerDue(c)
    /\ now' = now + TimeoutMs
    /\ UNCHANGED <<calls, client, delivered, faults, errors>>
    /\ UNCHANGED <<callerVars, monitorVars>>

Next ==
    \/ \E c \in Calls : SendDeviceCommand(c)
    \/ \E c \in Calls : SubscribeCallback(c)
    \/ \E c \in Calls : PublishCallback(c)
    \/ DeliverMessage
    \/ \E c \in Calls : TimeoutFires(c)
    \/ Tick

Spec == Init /\ [][Next]_vars

\* Timers and transport callbacks that are due do run, and the clock advances;
\* nothing obliges a device to answer or a caller to call.
Fairness ==
    /\ \A c \in Calls : WF_vars(TimeoutFires(c))
    /\ \A c \in Calls : WF_vars(SubscribeCallback(c))
    /\ \A c \in Calls : WF_vars(PublishCallback(c))
    /\ WF_vars(Tick)

FairSpec == Spec /\ Fairness

(***************************************************************************)
(* Properties.                                                             *)
(***************************************************************************)
Running(c) == calls[c].pc = "running"
Resolved(c) == calls[c].result # NoResult
Pending(c) == Running(c) /\ ~Resolved(c)

\* c and d were both unresolved on the same response topic when the first
\* message for them arrived
InFlightTogether(c, d) ==
    /\ c # d
    /\ Running(c) /\ Running(d)
    /\ calls[c].responseTopic = calls[d].responseTopic
    /\ calls[c].received = calls[d].received
    /\ calls[c].firstMsg # "" /\ calls[d].firstMsg # ""

\* C1: of two calls with different commands in flight on the same device, a
\* call that resolves from a reply resolves with the reply to its own
\* command, never with the reply to the other call's command.
DemultiplexByCall ==
    \A c, d \in Calls :
        (InFlightTogether(c, d) /\ calls[c].command # calls[d].command
            /\ calls[c].resolvedBy = "reply")
        => calls[c].result = [responseTo |-> calls[c].command]

\* C2: a step in which another call tears its subscription down leaves the
\* response topic of a call that stays pending subscribed.
IsolatedSubscription ==
    [][\A c, d \in Calls :
          (/\ c # d
           /\ Pending(c)
           /\ calls[c].responseTopic \in client.subs
           /\ calls'[d].unsubscribes > calls[d].unsubscribes
           /\ calls'[c].result = NoResult)
          => calls[c].responseTopic \in client'.subs]_vars

\* C3: a call whose first message, arrived while it was unresolved, is
\* well-formed has the body of that message as its result, in that state and
\* in every later one, whatever is delivered afterwards.
FirstMessageWins ==
    \A c \in Calls :
        (calls[c].firstMsg # "" /\ IsJson(calls[c].firstMsg))
        => calls[c].result = JsonParse(calls[c].firstMsg)

FirstMessageWinsWitness ==
    \E c \in Calls :
        /\ calls[c].received >= 2
        /\ IsJson(calls[c].firstMsg)
        /\ calls[c].resolvedBy = "reply"
        /\ calls[c].result = JsonParse(calls[c].firstMsg)

\* C4: every call that was started eventually has a result.
EveryCallResolves ==
    \A c \in Calls : Running(c) ~> Resolved(c)

ParseFailedMessage == "Failed to parse response"

\* C5: a call whose first message is not valid JSON has the ParseFailed
\* result, and no exception left a message listener.
ParseFailureResolves ==
    \A c \in Calls :
        (calls[c].firstMsg # "" /\ ~IsJson(calls[c].firstMsg))
        => /\ calls[c].result = [error |-> TRUE, message |-> ParseFailedMessage]
           /\ faults = 0

\* C6: a call whose subscribe and publish succeeded and that received no
\* message before its timer fired has the Timeout result, one unsubscribe
\* and one listener removal; until the timer fires it has neither a result
\* nor a teardown.
TimeoutTeardown ==
    \A c \in Calls :
        (calls[c].subCb = "ok" /\ calls[c].pubCb = "ok" /\ calls[c].firstMsg = "")
        => /\ calls[c].timer = "fired"
              => /\ calls[c].result = TimeoutResult
                 /\ calls[c].unsubscribes = 1
                 /\ calls[c].removals = 1
           /\ calls[c].timer = "armed"
              => /\ calls[c].result = NoResult
                 /\ calls[c].unsubscribes = 0
                 /\ calls[c].removals = 0
                 /\ now <= calls[c].deadline

TimeoutTeardownWitness ==
    \E c \in Calls :
        /\ calls[c].subCb = "ok" /\ calls[c].pubCb = "ok"
        /\ calls[c].firstMsg = ""
        /\ calls[c].timer = "fired"
        /\ calls[c].result = TimeoutResult
        /\ now = calls[c].deadline

\* C7: cleanup never runs twice for a call, and has run exactly once for
\* every call that has a result.
TeardownExactlyOnce ==
    \A c \in Calls :
        /\ calls[c].removals <= 1 /\ calls[c].unsubscribes <= 1
        /\ Resolved(c) => (calls[c].removals = 1 /\ calls[c].unsubscribes = 1)

\* C8: a call that has a result has no listener registered, has unsubscribed
\* its response topic and has no timer armed.
CompleteTeardown ==
    \A c \in Calls :
        Resolved(c)
        => /\ \A i \in 1..Len(client.listeners) :
                  client.listeners[i] # CommandListener(c)
           /\ calls[c].unsubscribes >= 1
           /\ calls[c].timer # "armed"

\* C9: a call whose subscribe failed has the SubscriptionFailed result and
\* published nothing.
SubscriptionFailureNoPublish ==
    \A c \in Calls :
        calls[c].subCb = "failed"
        => /\ calls[c].result = SubscriptionFailedResult(calls[c].subErr)
           /\ calls[c].publishes = 0

\* C10 as stated: a call whose publish failed has the PublishFailed result
\* and has unsubscribed its response topic.
PublishFailureResolves ==
    \A c \in Calls :
        calls[c].pubCb = "failed"
        => /\ calls[c].result = PublishFailedResult(calls[c].pubErr)
           /\ calls[c].unsubscribes >= 1

\* C10: a call whose publish failed has run its teardown (listener removal
\* and unsubscribe) and has a result: the PublishFailed result if the
\* publish failure is what resolved it, otherwise the result of the outcome
\* that resolved it first.
PublishFailureFirstWins ==
    \A c \in Calls :
        calls[c].pubCb = "failed"
        => /\ calls[c].unsubscribes >= 1
           /\ calls[c].removals >= 1
           /\ calls[c].isHandled
           /\ IF calls[c].resolvedBy = "publish"
              THEN calls[c].result = PublishFailedResult(calls[c].pubErr)
              ELSE /\ calls[c].resolvedBy \in {"subscribe", "reply", "timeout"}
                   /\ calls[c].result # PublishFailedResult(calls[c].pubErr)
                   /\ Resolved(c)

PublishFailureWitness ==
    \E c \in Calls :
        /\ calls[c].pubCb = "failed"
        /\ calls[c].resolvedBy = "publish"
        /\ calls[c].result = [error |-> TRUE, message |-> "Publish failed: Network failure"]
        /\ calls[c].unsubscribes = 1

\* C11: a step taken while a call has a result (a later message, timer
\* expiry or transport callback) leaves that result, and the outcome that
\* produced it, as they were.
ResultIsFinal ==
    [][\A c \in Calls :
          Resolved(c)
          => /\ calls'[c].result = calls[c].result
             /\ calls'[c].resolvedBy = calls[c].resolvedBy]_vars

\* a call resolved by a reply whose publish or subscribe error callback ran
\* afterwards
ResultIsFinalWitness ==
    \E c \in Calls :
        /\ calls[c].resolvedBy = "reply"
        /\ IsJson(calls[c].firstMsg)
        /\ calls[c].result = JsonParse(calls[c].firstMsg)
        /\ calls[c].pubCb = "failed" \/ calls[c].subCb = "failed"
        /\ calls[c].unsubscribes = 2

(***************************************************************************)
(* The identifier of a call.  One call of sendDeviceCommand is made with   *)
(* an identifier drawn from the addresses of the tests and from every      *)
(* string of at most MaxIdLen characters over IdAlphabet, on a client that *)
(* is connected or not; the exchange then runs as in Spec.                 *)
(***************************************************************************)
MaxIdLen == 3

IdAlphabet == {"a", "0", ":", "-"}

MacLower == <<"a","a","-","b","b","-","c","c","-","d","d","-","e","e","-","f","f">>
MacWrongSize == <<"0","0","-","1","1","-","2","2","-","3","3","-","4","4">>
MacNonHex == <<"0","0",":","1","1",":","2","2",":","3","3",":","4","4",":","5","G">>
MacArbitrary == <<"i","n","v","a","l","i","d","_","m","a","c","_",
                  "a","d","d","r","e","s","s">>
MacUnformatted == <<"0","0","1","1","2","2","3","3","4","4","5","5">>

TestMacs == {MacColon, MacHyphen, MacOther, MacLower,
             MacWrongSize, MacNonHex, MacArbitrary, MacUnformatted}

Identifiers ==
    TestMacs \cup UNION {[1..n -> IdAlphabet] : n \in 0..MaxIdLen}

HexChars == {"0","1","2","3","4","5","6","7","8","9","A","B","C","D","E","F"}

\* six octets of hexadecimal digits once the separators are gone
WellFormedMac(mac) ==
    LET key == Sanitize(mac)
    IN /\ Len(key) = 12
       /\ \A i \in 1..Len(key) : key[i] \in HexChars

InvalidMacResult == [error |-> TRUE, message |-> "Invalid MAC address"]

NotConnectedResult == [error |-> TRUE, message |-> "MQTT client not connected"]

CallerStart ==
    /\ ident \in Identifiers
    /\ connected \in BOOLEAN
    /\ OutsideInit

TopicInit == CorrelatorInit /\ CallerStart /\ MonitorInit

\* sendDeviceCommand(ident, "command1") on the client as it is
TopicCall ==
    /\ ProcessRuns
    /\ calls[1].pc = "idle"
    /\ \E subMode \in TransportModes, pubMode \in TransportModes,
          subReason \in SubscribeErrors, pubReason \in PublishErrors :
          /\ errors + ErrorCount(subMode, pubMode) <= MaxErrors
          /\ errors' = errors + ErrorCount(subMode, pubMode)
          /\ Commit(sendDeviceCommand(World, 1, ident, "command1",
                                      subMode, subReason, pubMode, pubReason, now))
    /\ UNCHANGED <<now, delivered>>
    /\ UNCHANGED <<callerVars, monitorVars>>

TopicNext ==
    \/ TopicCall
    \/ SubscribeCallback(1)
    \/ PublishCallback(1)
    \/ DeliverMessage
    \/ TimeoutFires(1)
    \/ Tick

TopicSpec == TopicInit /\ [][TopicNext]_vars

Key001122334455 == <<"0","0","1","1","2","2","3","3","4","4","5","5">>
KeyAABBCCDDEEFF == <<"A","A","B","B","C","C","D","D","E","E","F","F">>

IsLowerChar(ch) == \E i \in 1..Len(LowerChars) : LowerChars[i] = ch

\* the same identifier written with the other separator
SwapSeparators(mac) ==
    [i \in 1..Len(mac) |-> IF mac[i] = ":" THEN "-"
                           ELSE IF mac[i] = "-" THEN ":" ELSE mac[i]]

SeparatorCount(mac) == Cardinality({i \in 1..Len(mac) : IsSeparator(mac[i])})

\* C12: the key of an identifier has no ':' or '-' and no lower-case letter,
\* keeps every other character, is the same for the colon and the hyphen
\* form, and is its own key; the addresses of the tests give 001122334455
\* and AABBCCDDEEFF; a call subscribes to device<key>/response only and
\* publishes to device<key>/request only.
TopicDerivation ==
    LET key == Sanitize(ident)
    IN /\ \A i \in 1..Len(key) : ~IsSeparator(key[i]) /\ ~IsLowerChar(key[i])
       /\ Len(key) = Len(ident) - SeparatorCount(ident)
       /\ Sanitize(SwapSeparators(ident)) = key
       /\ Sanitize(key) = key
       /\ ident \in {MacColon, MacHyphen, MacUnformatted} => key = Key001122334455
       /\ ident \in {MacOther, MacLower} => key = KeyAABBCCDDEEFF
       /\ client.subs \subseteq {DevicePrefix \o key \o ResponseSuffix}
       /\ \A i \in 1..Len(client.outbox) :
              client.outbox[i].topic = DevicePrefix \o key \o RequestSuffix
       /\ calls[1].pc # "idle"
          => /\ calls[1].responseTopic = DevicePrefix \o key \o ResponseSuffix
             /\ calls[1].requestTopic = DevicePrefix \o key \o RequestSuffix
             /\ Len(client.outbox) = 1
             /\ calls[1].subCb = "ok" /\ calls[1].unsubscribes = 0
                => client.subs = {DevicePrefix \o key \o ResponseSuffix}

\* a lower-case, hyphen-separated identifier whose call is subscribed and
\* has published
TopicDerivationWitness ==
    /\ ident = MacLower
    /\ calls[1].pc = "running"
    /\ client.subs = {DevicePrefix \o KeyAABBCCDDEEFF \o ResponseSuffix}
    /\ Len(client.outbox) = 1
    /\ client.outbox[1].topic = DevicePrefix \o KeyAABBCCDDEEFF \o RequestSuffix

\* C13: a call whose identifier is not a well-formed MAC address subscribes
\* to nothing, publishes nothing and resolves with the Invalid MAC address
\* result.
InvalidMacRejected ==
    calls[1].pc # "idle" /\ ~WellFormedMac(ident)
    => /\ Resolved(1) => calls[1].result = InvalidMacResult
       /\ client.outbox = <<>>
       /\ client.subs = {}

\* C14: a call made while the client is not connected resolves with the
\* MQTT client not connected result.
NotConnectedRejected ==
    Resolved(1) /\ ~connected => calls[1].result = NotConnectedResult

(***************************************************************************)
(* Heartbeat store, risk table and monitor.                                *)
(***************************************************************************)
THRESHOLDS == [temperature |-> 70, cpu_percent |-> 95, ram_percent |-> 90]

HEARTBEAT_TIMEOUT == 5 * 60 * 1000

\* the degree sign followed by C
DegreesC == "\\u00B0C"

TemperatureReason(metrics) ==
    "High temperature: " \o ToString(metrics.temperature) \o DegreesC

CpuReason(metrics) == "High CPU usage: " \o ToString(metrics.cpu_percent) \o "%"

RamReason(metrics) == "High RAM usage: " \o ToString(metrics.ram_percent) \o "%"

\* analyzeMetrics with > in place of >=
analyzeMetricsAbove(table, deviceId, heartbeatData, t) ==
    LET metrics == heartbeatData.metrics
        hot == metrics.temperature > THRESHOLDS.temperature
        busy == metrics.cpu_percent > THRESHOLDS.cpu_percent
        full == metrics.ram_percent > THRESHOLDS.ram_percent
        r1 == IF hot THEN TemperatureReason(metrics) ELSE ""
        r2 == IF busy /\ r1 = "" THEN CpuReason(metrics) ELSE r1
        r3 == IF full /\ r2 = "" THEN RamReason(metrics) ELSE r2
    IN IF heartbeatData.status = "Defectueux" THEN table
       ELSE IF hot \/ busy \/ full
       THEN Put(table, deviceId, [timestamp |-> t, reason |-> r3])
       ELSE Delete(table, deviceId)

\* analyzeMetrics without the test of the status
analyzeMetricsNoSkip(table, deviceId, heartbeatData, t) ==
    LET metrics == heartbeatData.metrics
        hot == metrics.temperature >= THRESHOLDS.temperature
        busy == metrics.cpu_percent >= THRESHOLDS.cpu_percent
        full == metrics.ram_percent >= THRESHOLDS.ram_percent
        r1 == IF hot THEN TemperatureReason(metrics) ELSE ""
        r2 == IF busy /\ r1 = "" THEN CpuReason(metrics) ELSE r1
        r3 == IF full /\ r2 = "" THEN RamReason(metrics) ELSE r2
    IN IF hot \/ busy \/ full
       THEN Put(table, deviceId, [timestamp |-> t, reason |-> r3])
       ELSE Delete(table, deviceId)

\* analyzeMetrics without the delete of the else branch
analyzeMetricsKeep(table, deviceId, heartbeatData, t) ==
    LET metrics == heartbeatData.metrics
        hot == metrics.temperature >= THRESHOLDS.temperature
        busy == metrics.cpu_percent >= THRESHOLDS.cpu_percent
        full == metrics.ram_percent >= THRESHOLDS.ram_percent
        r1 == IF hot THEN TemperatureReason(metrics) ELSE ""
        r2 == IF busy /\ r1 = "" THEN CpuReason(metrics) ELSE r1
        r3 == IF full /\ r2 = "" THEN RamReason(metrics) ELSE r2
    IN IF heartbeatData.status = "Defectueux" THEN table
       ELSE IF hot \/ busy \/ full
       THEN Put(table, deviceId, [timestamp |-> t, reason |-> r3])
       ELSE table

\* analyzeMetrics(deviceId, heartbeatData) on the risk table, at time t
analyzeMetrics(table, deviceId, heartbeatData, t) ==
    LET metrics == heartbeatData.metrics
        hot == metrics.temperature >= THRESHOLDS.temperature
        busy == metrics.cpu_percent >= THRESHOLDS.cpu_percent
        full == metrics.ram_percent >= THRESHOLDS.ram_percent
        \* riskReason after each of the three tests
        r1 == IF hot THEN TemperatureReason(metrics) ELSE ""
        r2 == IF busy /\ r1 = "" THEN CpuReason(metrics) ELSE r1
        r3 == IF full /\ r2 = "" THEN RamReason(metrics) ELSE r2
    IN IF heartbeatData.status = "Defectueux" THEN table
       ELSE IF hot \/ busy \/ full
       THEN Put(table, deviceId, [timestamp |-> t, reason |-> r3])
       ELSE Delete(table, deviceId)

NoVerdict == [none |-> TRUE]

\* One call of analyzeMetrics.  Its call in handleHeartbeatMessage is
\* commented out, so it is an operation of its own here.
Analyze(d, heartbeatData) ==
    /\ risky' = analyzeMetrics(risky, DeviceKey(d), heartbeatData, wall)
    /\ UNCHANGED <<store, dbStatus, interventions, escalations, wall>>
    /\ UNCHANGED <<correlatorVars, callerVars>>

\* the call, with its arguments and the verdict before it kept for the record
AnalyzeMetrics(d, heartbeatData) ==
    /\ Analyze(d, heartbeatData)
    /\ analysed' = [analysed |-> TRUE, deviceId |-> DeviceKey(d),
                    heartbeatData |-> heartbeatData,
                    before |-> IF DeviceKey(d) \in DOMAIN risky
                               THEN risky[DeviceKey(d)] ELSE NoVerdict]

(***************************************************************************)
(* analyzeMetrics alone, on samples around the three thresholds.           *)
(***************************************************************************)
Temperatures == {60, 69, 70, 75}
CpuPercents == {10, 94, 95}
RamPercents == {10, 89, 90}

MetricSamples ==
    [status : {"Actif", "Defectueux", "defective"},
     metrics : [temperature : Temperatures, cpu_percent : CpuPercents,
                ram_percent : RamPercents],
     timestamp : {0}]

AnalyzeNext == \E d \in DeviceIds, sample \in MetricSamples : AnalyzeMetrics(d, sample)

AnalyzeSpec == Init /\ [][AnalyzeNext]_vars

Skipped(sample) == sample.status = "Defectueux"

Breaches(metrics) ==
    metrics.temperature >= 70 \/ metrics.cpu_percent >= 95 \/ metrics.ram_percent >= 90

FirstBreachReason(metrics) ==
    IF metrics.temperature >= 70 THEN TemperatureReason(metrics)
    ELSE IF metrics.cpu_percent >= 95 THEN CpuReason(metrics)
    ELSE RamReason(metrics)

\* C19: after a sample that is not skipped has been evaluated, the device has
\* a verdict exactly if temperature >= 70 or CPU >= 95 or RAM >= 90, and the
\* reason of the verdict is that of the first breached threshold in the
\* order temperature, CPU, RAM.
RiskEvaluation ==
    analysed.analysed /\ ~Skipped(analysed.heartbeatData)
    => LET key == analysed.deviceId
           metrics == analysed.heartbeatData.metrics
       IN /\ key \in DOMAIN risky <=> Breaches(metrics)
          /\ key \in DOMAIN risky => risky[key].reason = FirstBreachReason(metrics)

\* a sample exactly at the CPU and RAM thresholds and below the temperature
\* threshold got a verdict that names the CPU
RiskEvaluationWitness ==
    /\ analysed.analysed
    /\ analysed.heartbeatData.status = "Actif"
    /\ analysed.heartbeatData.metrics =
           [temperature |-> 69, cpu_percent |-> 95, ram_percent |-> 90]
    /\ analysed.deviceId \in DOMAIN risky
    /\ risky[analysed.deviceId].reason = "High CPU usage: 95%"

Compliant(metrics) ==
    metrics.temperature < 70 /\ metrics.cpu_percent < 95 /\ metrics.ram_percent < 90

\* C20: after a sample whose temperature, CPU and RAM are all below their
\* thresholds has been evaluated, the device has no verdict, whether it had
\* one before or not.
RiskClearing ==
    /\ analysed.analysed
    /\ ~Skipped(analysed.heartbeatData)
    /\ Compliant(analysed.heartbeatData.metrics)
    => analysed.deviceId \notin DOMAIN risky

\* a device with a verdict for temperature 75 was evaluated on a sample of
\* temperature 60, CPU 10, RAM 10 and has no verdict
RiskClearingWitness ==
    /\ analysed.analysed
    /\ analysed.before # NoVerdict
    /\ analysed.before.reason = "High temperature: 75" \o DegreesC
    /\ analysed.heartbeatData.status = "Actif"
    /\ analysed.heartbeatData.metrics =
           [temperature |-> 60, cpu_percent |-> 10, ram_percent |-> 10]
    /\ analysed.deviceId \notin DOMAIN risky

(***************************************************************************)
(* The heartbeat monitor.  A sample carries the time of the device in      *)
(* seconds; the monitor runs at the instants of ClockInstants.  A storage  *)
(* call (prisma) succeeds or fails.                                        *)
(***************************************************************************)
MaxPeriods == 2

\* the escalations followed in one run: as many as there are devices
MaxEscalations == Cardinality(DeviceIds)

ClockInstants ==
    {0} \cup UNION {{p * HEARTBEAT_TIMEOUT, p * HEARTBEAT_TIMEOUT + 1} : p \in 1..MaxPeriods}

CalmMetrics == [temperature |-> 60, cpu_percent |-> 10, ram_percent |-> 10]
HotMetrics == [temperature |-> 75, cpu_percent |-> 10, ram_percent |-> 10]

\* the status values a user sends in the model, out of DeviceStatus
UserStatuses == {"connected", "defective", "broken_down"}

\* handleHeartbeatMessage with the evaluation of its line 79 switched on, by
\* an analyzeMetrics that sets verdicts and removes none
HandleHeartbeatEvaluated(d) ==
    /\ ProcessRuns
    /\ \E metrics \in {CalmMetrics, HotMetrics} :
          LET heartbeatData == [status |-> "Actif", metrics |-> metrics,
                                timestamp |-> wall \div 1000]
          IN /\ store' = handleHeartbeatMessage(store, DeviceKey(d), heartbeatData)
             /\ risky' = analyzeMetricsKeep(risky, DeviceKey(d), heartbeatData, wall)
    /\ UNCHANGED <<dbStatus, interventions, escalations, wall, analysed>>
    /\ UNCHANGED <<correlatorVars, callerVars>>

\* handleHeartbeatMessage(deviceId, heartbeatData) for a message of device d:
\* the sample is stored and, the call of analyzeMetrics being commented out,
\* nothing is evaluated
HandleHeartbeat(d) ==
    /\ ProcessRuns
    /\ \E metrics \in {CalmMetrics, HotMetrics} :
          store' = handleHeartbeatMessage(store, DeviceKey(d),
                       [status |-> "Actif", metrics |-> metrics,
                        timestamp |-> wall \div 1000])
    /\ UNCHANGED <<risky, dbStatus, interventions, escalations, wall, analysed>>
    /\ UNCHANGED <<correlatorVars, callerVars>>

AdvanceClock ==
    /\ ProcessRuns
    /\ \E t \in ClockInstants : t > wall /\ wall' = t
    /\ UNCHANGED <<store, risky, dbStatus, interventions, escalations, analysed>>
    /\ UNCHANGED <<correlatorVars, callerVars>>

MonitorWorld ==
    [store |-> store, risky |-> risky, escalations |-> escalations, w |-> World]

IdleCalls(w) == {c \in Calls : w.calls[c].pc = "idle"}

\* the part of setDeviceDefective that runs in the caller's turn: the
\* command is sent and the status update is requested
setDeviceDefective(m, macAddress, reason, subMode, subReason, pubMode, pubReason) ==
    LET c == CHOOSE x \in IdleCalls(m.w) : \A y \in IdleCalls(m.w) : x <= y
        w1 == sendDeviceCommand(m.w, c, <<DeviceKey(macAddress)>>, "set_defective",
                                subMode, subReason, pubMode, pubReason, now)
    IN [m EXCEPT !.w = w1,
                 !.escalations = Append(@,
                     [deviceId |-> macAddress, status |-> "defective",
                      reason |-> reason, isRemote |-> FALSE,
                      pc |-> "updating", statusSet |-> FALSE])]

\* setDeviceOutOfService asking for an intervention on site
setDeviceOutOfServiceOnSite(m, deviceId) ==
    [m EXCEPT !.escalations = Append(@,
        [deviceId |-> deviceId, status |-> "broken_down",
         reason |-> "", isRemote |-> FALSE,
         pc |-> "updating", statusSet |-> FALSE])]

\* the part of setDeviceOutOfService that runs in the caller's turn
setDeviceOutOfService(m, deviceId) ==
    [m EXCEPT !.escalations = Append(@,
        [deviceId |-> deviceId, status |-> "broken_down",
         reason |-> "", isRemote |-> TRUE,
         pc |-> "updating", statusSet |-> FALSE])]

\* the test of staleness with the boundary included
StaleFromTimeout(heartbeatData, t) ==
    t - heartbeatData.timestamp * 1000 >= HEARTBEAT_TIMEOUT

Stale(heartbeatData, t) == t - heartbeatData.timestamp * 1000 > HEARTBEAT_TIMEOUT

\* monitorDeviceHeartbeats deciding on the time of a sample of the start of
\* the run, whatever sample the store holds now
RECURSIVE monitorDeviceHeartbeatsOldRead(_, _, _, _, _, _, _)
monitorDeviceHeartbeatsOldRead(m, devs, t, subMode, subReason, pubMode, pubReason) ==
    IF devs = {} THEN m
    ELSE LET d == CHOOSE x \in devs : \A y \in devs : x <= y
             deviceId == DeviceKey(d)
             m1 == IF deviceId \in DOMAIN m.risky
                   THEN setDeviceDefective(m, DeviceNumber(deviceId),
                                           m.risky[deviceId].reason,
                                           subMode, subReason, pubMode, pubReason)
                   ELSE setDeviceOutOfService(m, DeviceNumber(deviceId))
             m2 == IF Stale([m.store[deviceId] EXCEPT !.timestamp = 0], t)
                   THEN [m1 EXCEPT !.store = Delete(@, deviceId),
                                   !.risky = Delete(@, deviceId)]
                   ELSE m
         IN monitorDeviceHeartbeatsOldRead(m2, devs \ {d}, t,
                                           subMode, subReason, pubMode, pubReason)

\* monitorDeviceHeartbeats without the delete of the verdict
RECURSIVE monitorDeviceHeartbeatsKeepVerdict(_, _, _, _, _, _, _)
monitorDeviceHeartbeatsKeepVerdict(m, devs, t, subMode, subReason, pubMode, pubReason) ==
    IF devs = {} THEN m
    ELSE LET d == CHOOSE x \in devs : \A y \in devs : x <= y
             deviceId == DeviceKey(d)
             m1 == IF deviceId \in DOMAIN m.risky
                   THEN setDeviceDefective(m, DeviceNumber(deviceId),
                                           m.risky[deviceId].reason,
                                           subMode, subReason, pubMode, pubReason)
                   ELSE setDeviceOutOfService(m, DeviceNumber(deviceId))
             m2 == IF Stale(m.store[deviceId], t)
                   THEN [m1 EXCEPT !.store = Delete(@, deviceId)]
                   ELSE m
         IN monitorDeviceHeartbeatsKeepVerdict(m2, devs \ {d}, t,
                                               subMode, subReason, pubMode, pubReason)

\* the for-in loop of monitorDeviceHeartbeats over the keys left in devs,
\* in ascending order
RECURSIVE monitorDeviceHeartbeats(_, _, _, _, _, _, _)
monitorDeviceHeartbeats(m, devs, t, subMode, subReason, pubMode, pubReason) ==
    IF devs = {} THEN m
    ELSE LET d == CHOOSE x \in devs : \A y \in devs : x <= y
             deviceId == DeviceKey(d)
             m1 == IF deviceId \in DOMAIN m.risky
                   THEN setDeviceDefective(m, DeviceNumber(deviceId),
                                           m.risky[deviceId].reason,
                                           subMode, subReason, pubMode, pubReason)
                   ELSE setDeviceOutOfService(m, DeviceNumber(deviceId))
             m2 == IF Stale(m.store[deviceId], t)
                   THEN [m1 EXCEPT !.store = Delete(@, deviceId),
                                   !.risky = Delete(@, deviceId)]
                   ELSE m
         IN monitorDeviceHeartbeats(m2, devs \ {d}, t,
                                    subMode, subReason, pubMode, pubReason)

StoredDevices == {d \in DeviceIds : DeviceKey(d) \in DOMAIN store}

StaleDevices == {d \in StoredDevices : Stale(store[DeviceKey(d)], wall)}

StaleRisky == {d \in StaleDevices : DeviceKey(d) \in DOMAIN risky}

\* One run of monitorDeviceHeartbeats.  The commands it sends all meet the
\* same transport outcome.
Sweep ==
    /\ ProcessRuns
    /\ Len(escalations) + Cardinality(StaleDevices) <= MaxEscalations
    /\ Cardinality(StaleRisky) <= Cardinality(IdleCalls(World))
    /\ \E subMode \in TransportModes, pubMode \in TransportModes,
          subReason \in SubscribeErrors, pubReason \in PublishErrors :
          LET n == ErrorCount(subMode, pubMode) * Cardinality(StaleRisky)
              m == monitorDeviceHeartbeats(MonitorWorld, StoredDevices, wall,
                                           subMode, subReason, pubMode, pubReason)
          IN /\ StaleRisky = {} => subMode = "ok" /\ pubMode = "ok"
             /\ errors + n <= MaxErrors
             /\ errors' = errors + n
             /\ store' = m.store
             /\ risky' = m.risky
             /\ escalations' = m.escalations
             /\ Commit(m.w)
    /\ UNCHANGED <<now, delivered>>
    /\ UNCHANGED <<dbStatus, interventions, wall, analysed, callerVars>>

\* the device table holds a row with this id; prisma.device.update and the
\* connect of prisma.intervention.create reject when it does not
RowExists(table, id) == id \in DOMAIN table

\* a status update that puts a device that is not connected back to connected
updateDeviceStatusInDBRestore(table, deviceId, status) ==
    [table EXCEPT ![deviceId] = IF @ = "connected" THEN status ELSE "connected"]

\* prisma.device.update({where: {id}, data: {status}})
updateDeviceStatusInDB(table, deviceId, status) ==
    [table EXCEPT ![deviceId] = status]

\* prisma.intervention.create
createIntervention(rows, type, deviceId, maintainerId, Priority, isRemote, by) ==
    Append(rows, [type |-> type, deviceId |-> deviceId,
                  maintainerId |-> maintainerId, Priority |-> Priority,
                  isRemote |-> isRemote, escalation |-> by])

\* the status update held back until the commands that were sent are resolved
StatusUpdateDoneAfterCommand(i) ==
    /\ ProcessRuns
    /\ i <= Len(escalations)
    /\ escalations[i].pc = "updating"
    /\ \A c \in Calls : calls[c].pc = "idle" \/ calls[c].result # NoResult
    /\ \E ok \in BOOLEAN :
          IF ok /\ RowExists(dbStatus, escalations[i].deviceId)
          THEN /\ dbStatus' = updateDeviceStatusInDB(dbStatus, escalations[i].deviceId,
                                                     escalations[i].status)
               /\ escalations' = [escalations EXCEPT ![i].pc = "creating",
                                                     ![i].statusSet = TRUE]
          ELSE /\ escalations' = [escalations EXCEPT ![i].pc = "failed"]
               /\ UNCHANGED dbStatus
    /\ UNCHANGED <<store, risky, interventions, wall, analysed>>
    /\ UNCHANGED <<correlatorVars, callerVars>>

\* the status update comes back and the intervention is requested whether
\* the update has succeeded or not
StatusUpdateDoneThenCreate(i) ==
    /\ ProcessRuns
    /\ i <= Len(escalations)
    /\ escalations[i].pc = "updating"
    /\ \E ok \in BOOLEAN :
          IF ok /\ RowExists(dbStatus, escalations[i].deviceId)
          THEN /\ dbStatus' = updateDeviceStatusInDB(dbStatus, escalations[i].deviceId,
                                                     escalations[i].status)
               /\ escalations' = [escalations EXCEPT ![i].pc = "creating",
                                                     ![i].statusSet = TRUE]
          ELSE /\ escalations' = [escalations EXCEPT ![i].pc = "creating"]
               /\ UNCHANGED dbStatus
    /\ UNCHANGED <<store, risky, interventions, wall, analysed>>
    /\ UNCHANGED <<correlatorVars, callerVars>>

\* the status update of escalation i comes back: the status is written and
\* the intervention is requested, or updateDeviceStatusInDB throws 'Error
\* updating device status' and the process ends on the rejection
StatusUpdateDone(i) ==
    /\ ProcessRuns
    /\ i <= Len(escalations)
    /\ escalations[i].pc = "updating"
    /\ \E ok \in BOOLEAN :
          IF ok /\ RowExists(dbStatus, escalations[i].deviceId)
          THEN /\ dbStatus' = updateDeviceStatusInDB(dbStatus, escalations[i].deviceId,
                                                     escalations[i].status)
               /\ escalations' = [escalations EXCEPT ![i].pc = "creating",
                                                     ![i].statusSet = TRUE]
          ELSE /\ escalations' = [escalations EXCEPT ![i].pc = "failed"]
               /\ UNCHANGED dbStatus
    /\ UNCHANGED <<store, risky, interventions, wall, analysed>>
    /\ UNCHANGED <<correlatorVars, callerVars>>

\* the intervention creation of escalation i comes back: the row is created,
\* or createIntervention throws 'Error creating intervention' and the process
\* ends on the rejection
InterventionDone(i) ==
    /\ ProcessRuns
    /\ i <= Len(escalations)
    /\ escalations[i].pc = "creating"
    /\ \E ok \in BOOLEAN :
          IF ok /\ RowExists(dbStatus, escalations[i].deviceId)
          THEN /\ interventions' = createIntervention(interventions, "curative",
                                       escalations[i].deviceId, 1, "1",
                                       escalations[i].isRemote, i)
               /\ escalations' = [escalations EXCEPT ![i].pc = "done"]
          ELSE /\ escalations' = [escalations EXCEPT ![i].pc = "failed"]
               /\ UNCHANGED interventions
    /\ UNCHANGED <<store, risky, dbStatus, wall, analysed>>
    /\ UNCHANGED <<correlatorVars, callerVars>>

MonitorNext ==
    \/ \E d \in DeviceIds : HandleHeartbeat(d)
    \/ AdvanceClock
    \/ Sweep
    \/ \E i \in 1..MaxEscalations : StatusUpdateDone(i)
    \/ \E i \in 1..MaxEscalations : InterventionDone(i)

MonitorSpec == Init /\ [][MonitorNext]_vars

Finished(i) == escalations[i].pc \in {"done", "failed"}

InterventionsOf(i) ==
    Cardinality({j \in 1..Len(interventions) : interventions[j].escalation = i})

\* C15: once the escalation of a stale device has run, the status of the
\* device was set to defective if the device had a verdict and to
\* broken_down otherwise, and one curative intervention was created for it.
StalenessEscalation ==
    \A i \in 1..Len(escalations) :
        Finished(i)
        => /\ escalations[i].statusSet
           /\ escalations[i].status \in {"defective", "broken_down"}
           /\ InterventionsOf(i) = 1
           /\ \A j \in 1..Len(interventions) :
                 interventions[j].escalation = i
                 => /\ interventions[j].type = "curative"
                    /\ interventions[j].deviceId = escalations[i].deviceId

(***************************************************************************)
(* Device administration: POST /devices, PUT /devices/:id and              *)
(* DELETE /devices/:id.  A handler runs up to its first await; every       *)
(* prisma call comes back in a later turn, and samples, sweeps and the     *)
(* storage calls of the escalations run in between.  One request is        *)
(* followed.                                                               *)
(***************************************************************************)
\* res.status(status).json(json)
Answered(body, status, json) ==
    [state |-> "answered", body |-> body, status |-> status, json |-> json]

\* the id the table gives to the next row it creates
CreatedDeviceId == Cardinality(DeviceIds) + 1

\* req.params.id of the requests
RequestIds == DeviceIds \cup {CreatedDeviceId}

\* error.message of a prisma call that has rejected
DbFailure == "database error"

NotFound == [success |-> FALSE, message |-> "Device not found"]

Row(id, status) == [id |-> id, status |-> status]

AdminRequest(op, id, data) == [op |-> op, id |-> id, data |-> data]

\* await prisma.device.findUnique({where: {id}})
Finding(body) == [state |-> "finding", body |-> body]

\* await prisma.device.create / update / delete
Writing(body) == [state |-> "writing", body |-> body]

\* prisma.device.create({data: {..., status: data.status, ...}})
createDeviceService(table, data) ==
    [id \in DOMAIN table \cup {CreatedDeviceId} |->
        IF id = CreatedDeviceId THEN data.status ELSE table[id]]

\* prisma.device.update({where: {id}, data: {...data}})
updateDeviceService(table, id, data) == [table EXCEPT ![id] = data.status]

\* prisma.device.delete({where: {id}})
deleteDeviceService(table, id) == [d \in DOMAIN table \ {id} |-> table[d]]

AdminUnchanged ==
    /\ UNCHANGED <<store, risky, interventions, escalations, wall, analysed>>
    /\ UNCHANGED <<correlatorVars, ident, connected, inbound>>

\* createDevice up to await createDeviceService(req.body)
CreateDevice ==
    /\ ProcessRuns
    /\ http.state = "none"
    /\ CreatedDeviceId \notin DOMAIN dbStatus
    /\ \E status \in UserStatuses :
          http' = Writing(AdminRequest("create", CreatedDeviceId, [status |-> status]))
    /\ UNCHANGED dbStatus
    /\ AdminUnchanged

\* updateDevice up to the findUnique of updateDeviceService
UpdateDevice(d) ==
    /\ ProcessRuns
    /\ http.state = "none"
    /\ \E status \in UserStatuses :
          http' = Finding(AdminRequest("update", d, [status |-> status]))
    /\ UNCHANGED dbStatus
    /\ AdminUnchanged

\* deleteDevice up to the findUnique of deleteDeviceService
DeleteDevice(d) ==
    /\ ProcessRuns
    /\ http.state = "none"
    /\ http' = Finding(AdminRequest("delete", d, [status |-> ""]))
    /\ UNCHANGED dbStatus
    /\ AdminUnchanged

\* the answer was sent and the process has ended on a rejection nobody handles
Ended(body, status, json) ==
    [state |-> "ended", body |-> body, status |-> status, json |-> json]

\* GET /devices/status/:deviceId.  requestDeviceStatus reads
\* req.params.macAddress, which the route does not have: sendStatusRequest
\* calls sendDeviceCommand(undefined, "status"), whose executor throws on
\* macAddress.replace before it has subscribed, and drops the rejected
\* promise; the handler answers and the process ends.
RequestDeviceStatus(d) ==
    /\ ProcessRuns
    /\ http.state = "none"
    /\ http' = Ended(AdminRequest("status", d, [status |-> ""]), 200,
                    [message |-> "Status request sent to undefined"])
    /\ UNCHANGED dbStatus
    /\ AdminUnchanged

\* res.status(500).json({error: error.message}) of the three handlers
AdminFailed(body) == Answered(body, 500, [error |-> DbFailure])

\* findUnique comes back: without a row updateDevice answers 404 and
\* deleteDevice answers 201 with the same result; with a row the write is
\* requested
FindUniqueDone ==
    /\ ProcessRuns
    /\ http.state = "finding"
    /\ \E ok \in BOOLEAN :
          http' = IF ~ok THEN AdminFailed(http.body)
                  ELSE IF ~RowExists(dbStatus, http.body.id)
                  THEN Answered(http.body,
                                IF http.body.op = "update" THEN 404 ELSE 201,
                                NotFound)
                  ELSE Writing(http.body)
    /\ UNCHANGED dbStatus
    /\ AdminUnchanged

\* the answer of a handler whose write has succeeded on the table
AdminAnswer(body, table) ==
    CASE body.op = "create" ->
           Answered(body, 201,
               [success |-> TRUE, device |-> Row(body.id, table[body.id])])
      [] body.op = "update" ->
           Answered(body, 200,
               [success |-> TRUE, data |-> Row(body.id, table[body.id]),
                message |-> "Device updated successfully"])
      [] body.op = "delete" ->
           Answered(body, 201,
               [success |-> TRUE, message |-> "Device deleted successfully"])

\* the table after the write of the request
AdminWrite(table, body) ==
    CASE body.op = "create" -> createDeviceService(table, body.data)
      [] body.op = "update" -> updateDeviceService(table, body.id, body.data)
      [] body.op = "delete" -> deleteDeviceService(table, body.id)

\* the create, the update or the delete comes back: the table is written and
\* the request is answered, or the call has rejected and the catch answers 500
WriteDone ==
    /\ ProcessRuns
    /\ http.state = "writing"
    /\ \E ok \in BOOLEAN :
          IF ok /\ (http.body.op = "create" \/ RowExists(dbStatus, http.body.id))
          THEN LET table == AdminWrite(dbStatus, http.body)
               IN /\ dbStatus' = table
                  /\ http' = AdminAnswer(http.body, table)
          ELSE /\ http' = AdminFailed(http.body)
               /\ UNCHANGED dbStatus
    /\ AdminUnchanged

AdminNext ==
    \/ CreateDevice
    \/ \E d \in RequestIds : UpdateDevice(d)
    \/ \E d \in RequestIds : DeleteDevice(d)
    \/ \E d \in DeviceIds : RequestDeviceStatus(d)
    \/ FindUniqueDone
    \/ WriteDone
    \/ \E d \in DeviceIds : HandleHeartbeat(d)
    \/ AdvanceClock
    \/ Sweep
    \/ \E i \in 1..MaxEscalations : StatusUpdateDone(i)
    \/ \E i \in 1..MaxEscalations : InterventionDone(i)

AdminSpec == Init /\ [][AdminNext]_vars

\* C16: a device whose stored status is defective or broken_down was given
\* that status by an escalation of the monitor.
OnlyMonitorEscalates ==
    \A d \in DOMAIN dbStatus :
        dbStatus[d] \in {"defective", "broken_down"}
        => \E i \in 1..Len(escalations) :
               /\ escalations[i].deviceId = d
               /\ escalations[i].statusSet
               /\ escalations[i].status = dbStatus[d]

\* C17: an escalation that has finished and has changed the status of its
\* device has created an intervention for it.
StatusChangePaired ==
    \A i \in 1..Len(escalations) :
        Finished(i) /\ escalations[i].statusSet
        => \E j \in 1..Len(interventions) :
               /\ interventions[j].escalation = i
               /\ interventions[j].deviceId = escalations[i].deviceId

\* C18: a device whose escalation has failed, in the status update or in
\* the intervention creation, has a sample in the store.
PurgedOnlyAfterSuccess ==
    \A i \in 1..Len(escalations) :
        escalations[i].pc = "failed"
        => DeviceKey(escalations[i].deviceId) \in DOMAIN store

\* C21: a device has a verdict only while the sample the store holds for it
\* breaches a threshold.
VerdictOnlyWhileBreaching ==
    \A key \in DOMAIN risky :
        key \in DOMAIN store => Breaches(store[key].metrics)

\* a within-bounds sample has been recorded for one device and a breaching
\* sample for the other, and neither device has a verdict: nothing in the
\* program writes the risk table
VerdictOnlyWhileBreachingWitness ==
    /\ \E d \in DeviceIds :
          /\ DeviceKey(d) \in DOMAIN store
          /\ ~Breaches(store[DeviceKey(d)].metrics)
          /\ DeviceKey(d) \notin DOMAIN risky
    /\ \E d \in DeviceIds :
          /\ DeviceKey(d) \in DOMAIN store
          /\ Breaches(store[DeviceKey(d)].metrics)
    /\ risky = EmptyObject

(***************************************************************************)
(* POST /devices/control.  One request is handled; the exchange it starts  *)
(* is call 1.                                                              *)
(***************************************************************************)
ValidActions == {"activer", "desactiver", "set_defective", "set_maintenance"}

\* req.body: the fields it has, and their values
ControlBody(fields, macAddress, action) ==
    [fields |-> fields,
     macAddress |-> IF "macAddress" \in fields THEN macAddress ELSE <<>>,
     action |-> IF "action" \in fields THEN action ELSE ""]

ControlBodies ==
    {ControlBody(fields, MacOther, action) :
        fields \in SUBSET {"macAddress", "action"},
        action \in ValidActions \cup {"invalid_action"}}

Waiting(body) == [state |-> "waiting", body |-> body]

\* controlDevice without the test of the action
controlDeviceAnyAction(w, body, subMode, subReason, pubMode, pubReason, t) ==
    IF "macAddress" \notin body.fields
    THEN [w |-> w,
          http |-> Answered(body, 500,
                       [error |-> TRUE, message |-> "Failed to control device."])]
    ELSE [w |-> sendDeviceCommand(w, 1, body.macAddress, body.action,
                                  subMode, subReason, pubMode, pubReason, t),
          http |-> Waiting(body)]

\* controlDevice up to its await.  Without a macAddress the executor of
\* sendDeviceCommand throws on macAddress.replace before it has subscribed,
\* the promise is rejected and the catch answers.
controlDevice(w, body, subMode, subReason, pubMode, pubReason, t) ==
    IF "action" \notin body.fields \/ body.action \notin ValidActions
    THEN [w |-> w, http |-> Answered(body, 400, [error |-> "Invalid action"])]
    ELSE IF "macAddress" \notin body.fields
    THEN [w |-> w,
          http |-> Answered(body, 500,
                       [error |-> TRUE, message |-> "Failed to control device."])]
    ELSE [w |-> sendDeviceCommand(w, 1, body.macAddress, body.action,
                                  subMode, subReason, pubMode, pubReason, t),
          http |-> Waiting(body)]

\* if (deviceResponse.error)
IsErrorResponse(deviceResponse) ==
    "error" \in DOMAIN deviceResponse /\ deviceResponse.error = TRUE

\* controlDevice after its await
controlDeviceAnswer(body, deviceResponse) ==
    IF IsErrorResponse(deviceResponse)
    THEN Answered(body, 500, [error |-> TRUE, message |-> deviceResponse.message])
    ELSE Answered(body, 200,
             [status |-> "ok",
              message |-> "Command " \o body.action \o " executed",
              response |-> deviceResponse])

\* The await of sendDeviceCommand(macAddress, action): the rest of controlDevice
\* runs in a microtask of the turn that settles the promise, so the answer is
\* sent in the step that sets the result of call 1.
Settled(h, w) ==
    IF h.state = "waiting" /\ w.calls[1].result # NoResult
    THEN controlDeviceAnswer(h.body, w.calls[1].result)
    ELSE h

\* the turn of the request: a subscribe or a publish that fails inside the call
\* settles the promise before the turn ends, and the request is answered 500
ControlDevice ==
    /\ ProcessRuns
    /\ http.state = "none"
    /\ calls[1].pc = "idle"
    /\ \E body \in ControlBodies,
          subMode \in TransportModes, pubMode \in TransportModes,
          subReason \in SubscribeErrors, pubReason \in PublishErrors :
          LET r == controlDevice(World, body, subMode, subReason,
                                 pubMode, pubReason, now)
              n == IF r.http.state = "waiting"
                   THEN ErrorCount(subMode, pubMode) ELSE 0
          IN /\ r.http.state # "waiting" => subMode = "ok" /\ pubMode = "ok"
             /\ errors + n <= MaxErrors
             /\ errors' = errors + n
             /\ http' = Settled(r.http, r.w)
             /\ Commit(r.w)
    /\ UNCHANGED <<now, delivered, ident, connected, inbound, monitorVars>>

\* a turn of the exchange of the request, followed by the continuation of
\* controlDevice when the turn has settled the exchange
ControlTurn(w) ==
    /\ Commit(w)
    /\ http' = Settled(http, w)
    /\ UNCHANGED <<now, errors, ident, connected, inbound, monitorVars>>

ControlSubscribeCallback ==
    /\ ProcessRuns
    /\ calls[1].pc = "running"
    /\ calls[1].subCb = "pending"
    /\ ControlTurn(subscribeFailed(World, 1, calls[1].subErr))
    /\ UNCHANGED delivered

ControlPublishCallback ==
    /\ ProcessRuns
    /\ calls[1].pc = "running"
    /\ calls[1].pubCb = "pending"
    /\ ControlTurn(publishFailed(World, 1, calls[1].pubErr))
    /\ UNCHANGED delivered

ControlDeliver(payloads) ==
    /\ ProcessRuns
    /\ delivered < MaxDeliver
    /\ \E topic \in client.subs, message \in payloads :
          /\ delivered' = delivered + 1
          /\ ControlTurn(emit(NoteDelivery(World, topic, message),
                              client.listeners, topic, message))

ControlTimeoutFires ==
    /\ ProcessRuns
    /\ TimerDue(1)
    /\ ControlTurn(timeoutExpired(World, 1))
    /\ UNCHANGED delivered

ControllerNext ==
    \/ ControlDevice
    \/ ControlSubscribeCallback
    \/ ControlPublishCallback
    \/ ControlDeliver(Payloads)
    \/ ControlTimeoutFires
    \/ Tick

ControllerSpec == Init /\ [][ControllerNext]_vars

NoExchange ==
    /\ calls[1].pc = "idle"
    /\ client.subs = {}
    /\ client.listeners = <<>>
    /\ client.outbox = <<>>

\* C23: a request whose action is not one of activer, desactiver,
\* set_defective, set_maintenance is answered 400 with error 'Invalid action'
\* and no command is sent: nothing is subscribed and nothing is published.
InvalidActionRejected ==
    /\ http.state # "none"
    /\ http.body.action \notin {"activer", "desactiver", "set_defective", "set_maintenance"}
    => /\ http.state = "answered"
       /\ http.status = 400
       /\ http.json = [error |-> "Invalid action"]
       /\ NoExchange

\* the request {macAddress: 'AA:BB:CC:DD:EE:FF', action: 'invalid_action'}
\* of the tests was answered 400
InvalidActionWitness ==
    /\ http.state = "answered"
    /\ http.body.fields = {"macAddress", "action"}
    /\ http.body.macAddress = MacOther
    /\ http.body.action = "invalid_action"
    /\ http.status = 400
    /\ NoExchange

\* C24: a request with a valid action and no macAddress is answered 400 with
\* error 'macAddress is required', and no exchange is started.
MissingMacRejected ==
    /\ http.state # "none"
    /\ http.body.action \in ValidActions
    /\ "macAddress" \notin http.body.fields
    => /\ http.state = "answered"
       /\ http.status = 400
       /\ http.json = [error |-> "macAddress is required"]
       /\ NoExchange

(***************************************************************************)
(* Inbound telemetry.  Devices are subscribed with                         *)
(* subscribeToDeviceCommunication and messages arrive on the subscribed    *)
(* topics; the risk table and the clock are drawn at the start.            *)
(***************************************************************************)
\* the calls of subscribeToDeviceCommunication followed in one run: as many
\* as there are devices, so that a device can be subscribed twice
MaxSubscriptions == Cardinality(DeviceIds)

HotVerdict == [timestamp |-> 0, reason |-> TemperatureReason(HotMetrics)]

InitialRiskTables ==
    {EmptyObject} \cup {Put(EmptyObject, DeviceKey(d), HotVerdict) : d \in DeviceIds}

TelemetryInit ==
    /\ CorrelatorInit
    /\ CallerInit
    /\ store = EmptyObject
    /\ risky \in InitialRiskTables
    /\ dbStatus = [d \in DeviceIds |-> "connected"]
    /\ interventions = <<>>
    /\ escalations = <<>>
    /\ wall \in {0, HEARTBEAT_TIMEOUT}
    /\ analysed = NotAnalysed

\* subscribeToDeviceCommunication(d): each of the two subscriptions is
\* granted or refused, and the listener is registered in either case
SubscribeToDeviceCommunication(d) ==
    /\ ProcessRuns
    /\ Len(client.listeners) < MaxSubscriptions
    /\ \E statusOk \in BOOLEAN, heartbeatOk \in BOOLEAN :
          /\ statusOk \/ heartbeatOk => connected
          /\ client' = [client EXCEPT
              !.subs = @ \cup (IF statusOk THEN {StatusTopic(d)} ELSE {})
                         \cup (IF heartbeatOk THEN {HeartbeatTopic(d)} ELSE {}),
              !.listeners = Append(@, TelemetryListener(d))]
    /\ UNCHANGED <<calls, now, delivered, faults, errors>>
    /\ UNCHANGED <<callerVars, monitorVars>>

StoredOrNone(table, key) == IF key \in DOMAIN table THEN table[key] ELSE NoVerdict

\* the device whose status or heartbeat topic this is
TopicDevice(topic) ==
    CHOOSE d \in DeviceIds : topic \in {StatusTopic(d), HeartbeatTopic(d)}

\* the broker delivers a message on a subscribed topic
TelemetryStep(topic, message) ==
    LET w == emit(NoteDelivery(World, topic, message),
                  client.listeners, topic, message)
    IN /\ Commit(w)
       /\ store' = w.store
       /\ delivered' = delivered + 1
       /\ inbound' = [count |-> inbound.count + 1,
                      discarded |-> inbound.discarded + (IF IsJson(message) THEN 0 ELSE 1),
                      topic |-> topic, message |-> message,
                      previous |-> StoredOrNone(store, DeviceKey(TopicDevice(topic)))]
       /\ UNCHANGED <<now, errors, ident, connected, http>>
       /\ UNCHANGED <<risky, dbStatus, interventions, escalations, wall, analysed>>

DeliverTelemetry ==
    /\ ProcessRuns
    /\ delivered < MaxDeliver
    /\ \E topic \in client.subs, message \in TelemetryPayloads :
          TelemetryStep(topic, message)

TelemetryNext ==
    \/ \E d \in DeviceIds : SubscribeToDeviceCommunication(d)
    \/ DeliverTelemetry

TelemetrySpec == TelemetryInit /\ [][TelemetryNext]_vars

(***************************************************************************)
(* utils/mqtt_client.ts: subscribe, publish and disconnectClient work on   *)
(* the client the commands and the telemetry use.  Nothing under src calls *)
(* subscribe or publish and only a test calls disconnectClient; they are   *)
(* followed here beside subscribeToDeviceCommunication and the deliveries. *)
(***************************************************************************)
UtilityTopics ==
    {StatusTopic(d) : d \in DeviceIds} \cup {HeartbeatTopic(d) : d \in DeviceIds}

\* subscribe(topic, callback): the subscription is granted or refused, it is
\* refused on a client that was ended, and the listener is registered in
\* either case
Subscribe(topic) ==
    /\ ProcessRuns
    /\ Len(client.listeners) < MaxSubscriptions
    /\ \E granted \in BOOLEAN :
          /\ granted => connected
          /\ client' = [client EXCEPT
                 !.subs = @ \cup (IF granted THEN {topic} ELSE {}),
                 !.listeners = Append(@, UtilityListener)]
    /\ UNCHANGED <<calls, now, delivered, faults, errors>>
    /\ UNCHANGED <<callerVars, monitorVars>>

\* publish(topic, {command}): the message is handed to the client, connected
\* or not; a failure is logged only
Publish(topic, command) ==
    /\ ProcessRuns
    /\ Len(client.outbox) < MaxSubscriptions
    /\ client' = [client EXCEPT
           !.outbox = Append(@, [topic |-> topic, command |-> command])]
    /\ UNCHANGED <<calls, now, delivered, faults, errors>>
    /\ UNCHANGED <<callerVars, monitorVars>>

\* disconnectClient(): mqttClient.end(true) when the client is connected
DisconnectClient ==
    /\ ProcessRuns
    /\ connected
    /\ connected' = FALSE
    /\ UNCHANGED <<correlatorVars, ident, http, inbound, monitorVars>>

\* the broker delivers a message on a subscribed topic of a connected client
DeliverToClient ==
    /\ connected
    /\ DeliverTelemetry

ClientNext ==
    \/ \E topic \in UtilityTopics : Subscribe(topic)
    \/ \E command \in Commands : Publish(RequestTopic(MacColon), command)
    \/ DisconnectClient
    \/ \E d \in DeviceIds : SubscribeToDeviceCommunication(d)
    \/ DeliverToClient

ClientSpec == Init /\ [][ClientNext]_vars

Listening(d) ==
    \E i \in 1..Len(client.listeners) : client.listeners[i] = TelemetryListener(d)

\* the sample a message on a device's topic is recorded as
RecordedSample(topic, message) ==
    LET data == JsonParse(message)
        d == TopicDevice(topic)
    IN IF topic = HeartbeatTopic(d) THEN data
       ELSE [status |-> data.status, metrics |-> data.metrics,
             timestamp |-> IF data.timestamp = 0 THEN wall \div 1000 ELSE data.timestamp,
             device_id |-> DeviceKey(d), online |-> data.online]

\* a message of which a sample is recorded: any JSON on the heartbeat topic,
\* a JSON with metrics on the status topic
Recordable(topic, message) ==
    /\ IsJson(message)
    /\ Listening(TopicDevice(topic))
    /\ topic = StatusTopic(TopicDevice(topic)) => message # PayloadStatusOnly

\* C22: the delivery of an unparseable message leaves the store, the risk
\* table, the subscriptions and the listeners as they were and raises no
\* exception; a well-formed message is recorded, whatever was discarded
\* before it.
MalformedTelemetryDiscarded ==
    [][inbound'.count = inbound.count + 1
       => LET topic == inbound'.topic
              message == inbound'.message
          IN /\ ~IsJson(message)
                => /\ store' = store
                   /\ risky' = risky
                   /\ client' = client
                   /\ faults' = faults
             /\ Recordable(topic, message)
                => /\ DeviceKey(TopicDevice(topic)) \in DOMAIN store'
                   /\ store'[DeviceKey(TopicDevice(topic))] = RecordedSample(topic, message)]_vars

\* a message was discarded, and the well-formed heartbeat that followed it
\* is in the store
MalformedTelemetryWitness ==
    /\ inbound.discarded > 0
    /\ inbound.topic = HeartbeatTopic(1)
    /\ inbound.message = PayloadSampleCalm
    /\ DeviceKey(1) \in DOMAIN store
    /\ store[DeviceKey(1)] = JsonParse(PayloadSampleCalm)

\* C27: the delivery of a message changes the sample of no other device and
\* nothing in the risk table, and the sample it records is the new one with
\* exactly the fields of the new one.
RecordReplacesWhole ==
    [][inbound'.count = inbound.count + 1
       => LET topic == inbound'.topic
              message == inbound'.message
              key == DeviceKey(TopicDevice(topic))
          IN /\ risky' = risky
             /\ \A k \in (DOMAIN store \cup DOMAIN store') \ {key} :
                   k \in DOMAIN store /\ k \in DOMAIN store' /\ store'[k] = store[k]
             /\ Recordable(topic, message)
                => /\ key \in DOMAIN store'
                   /\ DOMAIN store'[key] = DOMAIN RecordedSample(topic, message)
                   /\ store'[key] = RecordedSample(topic, message)
             /\ ~Recordable(topic, message)
                => StoredOrNone(store', key) = StoredOrNone(store, key)]_vars

\* a sample with a device_id field was replaced by one without, while the
\* other device has a sample and a verdict
RecordReplacesWholeWitness ==
    /\ inbound.count > 0
    /\ inbound.topic = HeartbeatTopic(1)
    /\ inbound.message = PayloadSampleHot
    /\ inbound.previous = JsonParse(PayloadSampleCalm)
    /\ store[DeviceKey(1)] = JsonParse(PayloadSampleHot)
    /\ "device_id" \notin DOMAIN store[DeviceKey(1)]
    /\ DeviceKey(2) \in DOMAIN risky

(***************************************************************************)
(* setDeviceDefective for a monitored device, on the client the telemetry  *)
(* of the devices arrives on.  The command is sent with the device id as   *)
(* address and its exchange is call 1; the turn goes on to request the     *)
(* status update, and the storage calls come back in later turns.          *)
(***************************************************************************)
SetDeviceDefective(d) ==
    /\ ProcessRuns
    /\ calls[1].pc = "idle"
    /\ Len(escalations) < MaxEscalations
    /\ \E subMode \in TransportModes, pubMode \in TransportModes,
          subReason \in SubscribeErrors, pubReason \in PublishErrors :
          LET m == setDeviceDefective(MonitorWorld, d, HotVerdict.reason,
                                      subMode, subReason, pubMode, pubReason)
          IN /\ errors + ErrorCount(subMode, pubMode) <= MaxErrors
             /\ errors' = errors + ErrorCount(subMode, pubMode)
             /\ escalations' = m.escalations
             /\ Commit(m.w)
    /\ UNCHANGED <<now, delivered>>
    /\ UNCHANGED <<store, risky, dbStatus, interventions, wall, analysed, callerVars>>

\* the broker delivers a command reply or an unparseable message on a
\* subscribed topic
DeliverOnSharedClient ==
    /\ ProcessRuns
    /\ delivered < MaxDeliver
    /\ \E topic \in client.subs, message \in Payloads :
          TelemetryStep(topic, message)

SharedClientNext ==
    \/ \E d \in DeviceIds : SubscribeToDeviceCommunication(d)
    \/ \E d \in DeviceIds : SetDeviceDefective(d)
    \/ \E i \in 1..MaxEscalations : StatusUpdateDone(i)
    \/ \E i \in 1..MaxEscalations : InterventionDone(i)
    \/ SubscribeCallback(1)
    \/ PublishCallback(1)
    \/ DeliverOnSharedClient
    \/ TimeoutFires(1)
    \/ Tick

SharedClientSpec == Init /\ [][SharedClientNext]_vars

HasListener(c) ==
    \E i \in 1..Len(client.listeners) : client.listeners[i] = CommandListener(c)

\* C25: the delivery of a message on a topic other than the response topic
\* of a pending call leaves the call as it was: no result, the timer armed
\* or not as before, no cleanup, its listener and its subscription in place.
OnlyOwnResponseTopic ==
    [][inbound'.count = inbound.count + 1
       => \A c \in Calls :
             Pending(c) /\ inbound'.topic # calls[c].responseTopic
             => /\ calls'[c] = calls[c]
                /\ HasListener(c) => HasListener(c)'
                /\ calls[c].responseTopic \in client.subs
                   => calls[c].responseTopic \in client'.subs]_vars

\* call 1 is pending with its timer armed and nothing received, and the
\* last message was delivered on its own request topic
OnlyOwnResponseTopicWitness ==
    /\ Pending(1)
    /\ calls[1].timer = "armed"
    /\ calls[1].received = 0
    /\ ~calls[1].isHandled
    /\ HasListener(1)
    /\ inbound.count > 0
    /\ inbound.topic = calls[1].requestTopic
    /\ IsJson(inbound.message)

DifferentDevices(c, d) ==
    /\ c # d
    /\ Running(c) /\ Running(d)
    /\ calls[c].responseTopic # calls[d].responseTopic

\* C26: for two calls on devices with different keys, a step of one call (a
\* reply or an unparseable message on its topic, a failure callback, its
\* timeout, its teardown) leaves the other call, its listener and its
\* subscription as they were.
DifferentDevicesIndependent ==
    [][\A c \in Calls :
          calls'[c] # calls[c]
          => \A d \in Calls :
                DifferentDevices(c, d)
                => /\ calls'[d] = calls[d]
                   /\ HasListener(d)' = HasListener(d)
                   /\ (calls[d].responseTopic \in client'.subs)
                         = (calls[d].responseTopic \in client.subs)]_vars

\* one call has been torn down (listener removed, topic unsubscribed) while
\* the call on the other device is pending, subscribed and listening
DifferentDevicesWitness ==
    \E c, d \in Calls :
        /\ DifferentDevices(c, d)
        /\ Resolved(c)
        /\ calls[c].unsubscribes > 0
        /\ calls[c].removals > 0
        /\ Pending(d)
        /\ calls[d].subCb = "ok"
        /\ calls[d].responseTopic \in client.subs
        /\ HasListener(d)

\* the risk table after the last evaluation is the table before it
TableAsBefore ==
    StoredOrNone(risky, analysed.deviceId) = analysed.before

\* C28: after the evaluation of a sample whose reported status is
\* "defective", whatever its metrics, the device has the verdict it had
\* before, or none as before.
DefectiveSkipped ==
    analysed.analysed /\ analysed.heartbeatData.status = "defective"
    => TableAsBefore

\* C28, with the status the code tests: after the evaluation of a sample
\* whose reported status is "Defectueux", whatever its metrics, the device
\* has the verdict it had before, or none as before.
DefectueuxSkipped ==
    analysed.analysed /\ analysed.heartbeatData.status = "Defectueux"
    => TableAsBefore

\* a device with a verdict for temperature 75 sent a within-bounds sample
\* with status "Defectueux" and kept the verdict; and a device without a
\* verdict sent a breaching one and got none
DefectueuxSkippedWitness ==
    /\ analysed.analysed
    /\ analysed.heartbeatData.status = "Defectueux"
    /\ \/ /\ analysed.before # NoVerdict
          /\ Compliant(analysed.heartbeatData.metrics)
          /\ analysed.deviceId \in DOMAIN risky
          /\ risky[analysed.deviceId].reason = "High temperature: 75" \o DegreesC
       \/ /\ analysed.before = NoVerdict
          /\ Breaches(analysed.heartbeatData.metrics)
          /\ analysed.deviceId \notin DOMAIN risky

(***************************************************************************)
(* The sweep and the devices that are not stale.                           *)
(***************************************************************************)
\* the samples the store can hold at the instants of ClockInstants
StoredSamples ==
    [status : {"Actif"}, metrics : {CalmMetrics, HotMetrics},
     timestamp : {t \div 1000 : t \in ClockInstants}]

\* the stores with a sample for some of the devices
SampleTables ==
    UNION {{[k \in {DeviceKey(d) : d \in D} |-> f[DeviceNumber(k)]] :
                f \in [D -> StoredSamples]} : D \in SUBSET DeviceIds}

\* the risk tables with a verdict for some of the devices
VerdictTables ==
    {[k \in {DeviceKey(d) : d \in D} |-> HotVerdict] : D \in SUBSET DeviceIds}

\* the monitor is about to run on a store that the heartbeats of the past
\* have filled
SweepInit ==
    /\ CorrelatorInit
    /\ CallerInit
    /\ wall \in ClockInstants
    /\ store \in SampleTables
    /\ \A k \in DOMAIN store : store[k].timestamp * 1000 <= wall
    /\ risky \in VerdictTables
    /\ dbStatus = [d \in DeviceIds |-> "connected"]
    /\ interventions = <<>>
    /\ escalations = <<>>
    /\ analysed = NotAnalysed

SweepNext ==
    \/ AdvanceClock
    \/ Sweep
    \/ \E i \in 1..MaxEscalations : StatusUpdateDone(i)
    \/ \E i \in 1..MaxEscalations : InterventionDone(i)

SweepSpec == SweepInit /\ [][SweepNext]_vars

\* the age of the sample of device d is above 300000 ms
Overdue(d) ==
    /\ DeviceKey(d) \in DOMAIN store
    /\ wall - store[DeviceKey(d)].timestamp * 1000 > 300000

\* the escalations the step has started
Started == SubSeq(escalations', Len(escalations) + 1, Len(escalations'))

StartedFor(d) == {i \in 1..Len(Started) : Started[i].deviceId = d}

\* C29: a run of the monitor starts one escalation for each device whose
\* sample is more than 300000 ms old and none for the others; a device
\* whose sample is not that old, or that has no sample, keeps its sample,
\* its verdict and its status, and no intervention is created for it.
SweepBoundary ==
    [][Sweep
       => \A d \in DeviceIds :
             IF Overdue(d)
             THEN Cardinality(StartedFor(d)) = 1
             ELSE /\ StartedFor(d) = {}
                  /\ StoredOrNone(store', DeviceKey(d)) = StoredOrNone(store, DeviceKey(d))
                  /\ StoredOrNone(risky', DeviceKey(d)) = StoredOrNone(risky, DeviceKey(d))
                  /\ dbStatus'[d] = dbStatus[d]
                  /\ interventions' = interventions]_vars

\* at 300001 the monitor has escalated a device with a verdict and has
\* purged it, next to a device with a sample of time 300 and a verdict that
\* it has left alone
SweepBoundaryWitness ==
    /\ wall = HEARTBEAT_TIMEOUT + 1
    /\ \E d \in DeviceIds :
          /\ DeviceKey(d) \notin DOMAIN store
          /\ \E i \in 1..Len(escalations) :
                /\ escalations[i].deviceId = d
                /\ escalations[i].status = "defective"
    /\ \E d \in DeviceIds :
          /\ DeviceKey(d) \in DOMAIN store
          /\ store[DeviceKey(d)].timestamp = 300
          /\ DeviceKey(d) \in DOMAIN risky
          /\ \A i \in 1..Len(escalations) : escalations[i].deviceId # d

(***************************************************************************)
(* One device that is escalated, comes back and goes silent again.  The    *)
(* sample carries the time of the device, which is the time of the server  *)
(* or a time long past.                                                    *)
(***************************************************************************)
ReturningDevice == CHOOSE d \in DeviceIds : \A e \in DeviceIds : d <= e

HeartbeatFrom(d) ==
    /\ ProcessRuns
    /\ \E metrics \in {CalmMetrics, HotMetrics}, timestamp \in {0, wall \div 1000} :
          store' = handleHeartbeatMessage(store, DeviceKey(d),
                       [status |-> "Actif", metrics |-> metrics,
                        timestamp |-> timestamp])
    /\ UNCHANGED <<risky, dbStatus, interventions, escalations, wall, analysed>>
    /\ UNCHANGED <<correlatorVars, callerVars>>

ReturnNext ==
    \/ HeartbeatFrom(ReturningDevice)
    \/ AdvanceClock
    \/ Sweep
    \/ \E i \in 1..MaxEscalations : StatusUpdateDone(i)
    \/ \E i \in 1..MaxEscalations : InterventionDone(i)

\* the device has sent a breaching sample at time 0; the risk table holds a
\* verdict for it or, as in the program, none
ReturnInit ==
    /\ CorrelatorInit
    /\ CallerInit
    /\ wall = 0
    /\ store = Put(EmptyObject, DeviceKey(ReturningDevice),
                   [status |-> "Actif", metrics |-> HotMetrics, timestamp |-> 0])
    /\ risky \in {EmptyObject, Put(EmptyObject, DeviceKey(ReturningDevice), HotVerdict)}
    /\ dbStatus = [d \in DeviceIds |-> "connected"]
    /\ interventions = <<>>
    /\ escalations = <<>>
    /\ analysed = NotAnalysed

ReturnSpec == ReturnInit /\ [][ReturnNext]_vars

\* the status an escalation of device d that starts now sets
BranchNow(d) ==
    IF DeviceKey(d) \in DOMAIN risky THEN "defective" ELSE "broken_down"

\* C30: a run of the monitor leaves neither the sample nor the verdict of a
\* device it escalates; a device without a sample never has a verdict, so
\* that a verdict found later was made on a sample that came after the
\* purge; and each escalation of a device, the first as the later ones,
\* is one escalation whose status follows the verdict the device has then.
PurgeAndFreshEscalation ==
    [][/\ \A key \in DOMAIN risky' : key \in DOMAIN store'
       /\ Sweep
          => \A d \in DeviceIds :
                Overdue(d)
                => /\ DeviceKey(d) \notin DOMAIN store'
                   /\ DeviceKey(d) \notin DOMAIN risky'
                   /\ Cardinality(StartedFor(d)) = 1
                   /\ \A i \in StartedFor(d) : Started[i].status = BranchNow(d)]_vars

\* the device was escalated as defective, came back without a breach, went
\* silent and was escalated as broken_down; nothing of it is in memory
PurgeAndFreshEscalationWitness ==
    /\ Len(escalations) = 2
    /\ escalations[1].deviceId = ReturningDevice
    /\ escalations[2].deviceId = ReturningDevice
    /\ escalations[1].status = "defective"
    /\ escalations[2].status = "broken_down"
    /\ DeviceKey(ReturningDevice) \notin DOMAIN store
    /\ DeviceKey(ReturningDevice) \notin DOMAIN risky

(***************************************************************************)
(* The intervention of an escalation.                                      *)
(***************************************************************************)
\* the escalation that has created intervention j
EscalationOf(j) == escalations[interventions[j].escalation]

\* C31: an intervention created by an escalation is curative, of priority
\* "1" (high) and for the device of the escalation; it is not remote when
\* the escalation is to defective and remote when it is to broken_down.
InterventionShape ==
    \A j \in 1..Len(interventions) :
        /\ interventions[j].type = "curative"
        /\ interventions[j].Priority = "1"
        /\ interventions[j].deviceId = EscalationOf(j).deviceId
        /\ EscalationOf(j).status \in {"defective", "broken_down"}
        /\ EscalationOf(j).status = "defective" => ~interventions[j].isRemote
        /\ EscalationOf(j).status = "broken_down" => interventions[j].isRemote

\* one device was escalated to defective and the other to broken_down, and
\* each has its intervention
InterventionShapeWitness ==
    /\ \E j \in 1..Len(interventions) :
          EscalationOf(j).status = "defective" /\ ~interventions[j].isRemote
    /\ \E j \in 1..Len(interventions) :
          EscalationOf(j).status = "broken_down" /\ interventions[j].isRemote

\* C38: in every step, an escalation with an intervention has had its status
\* update succeed, an escalation has at most one intervention, and the step
\* in which the status of an escalation is written finds no intervention of
\* that escalation; so an escalation whose status update has failed has none.
InterventionAfterStatus ==
    [][\A i \in 1..Len(escalations') :
          /\ InterventionsOf(i)' > 0 => escalations'[i].statusSet
          /\ InterventionsOf(i)' <= 1
          /\ escalations'[i].pc = "failed" /\ ~escalations'[i].statusSet
             => InterventionsOf(i)' = 0
          /\ i <= Len(escalations) /\ escalations'[i].statusSet /\ ~escalations[i].statusSet
             => InterventionsOf(i) = 0]_vars

\* one escalation has ended with the failure of its status update and
\* without an intervention, the other with its status set and its
\* intervention
InterventionAfterStatusWitness ==
    /\ \E i \in 1..Len(escalations) :
          /\ escalations[i].pc = "failed"
          /\ ~escalations[i].statusSet
          /\ InterventionsOf(i) = 0
    /\ \E i \in 1..Len(escalations) :
          /\ escalations[i].pc = "done"
          /\ escalations[i].statusSet
          /\ InterventionsOf(i) = 1

\* C32: a step of the monitor or of the handling of a sample that changes
\* the stored status of a device sets it to defective or broken_down, and
\* a device that is defective or broken_down is not connected after the step.
NoReturnToConnected ==
    [][\A d \in DeviceIds :
          /\ dbStatus'[d] # dbStatus[d] => dbStatus'[d] \in {"defective", "broken_down"}
          /\ dbStatus[d] \in {"defective", "broken_down"}
             => dbStatus'[d] # "connected"]_vars

\* the device was escalated twice, with its status written both times, and
\* has sent a sample since; it is not connected
NoReturnToConnectedWitness ==
    /\ Len(escalations) = 2
    /\ \A i \in 1..2 : /\ escalations[i].deviceId = ReturningDevice
                       /\ escalations[i].statusSet
    /\ DeviceKey(ReturningDevice) \in DOMAIN store
    /\ dbStatus[ReturningDevice] \in {"defective", "broken_down"}

(***************************************************************************)
(* POST /devices/control with the replies a device can send, a reply with  *)
(* an error field among them.                                              *)
(***************************************************************************)
ReplyPayloads == {PayloadCommand1, PayloadDeviceError}

ReplyNext ==
    \/ ControlDevice
    \/ ControlSubscribeCallback
    \/ ControlPublishCallback
    \/ ControlDeliver(ReplyPayloads)
    \/ ControlTimeoutFires
    \/ Tick

ReplySpec == Init /\ [][ReplyNext]_vars

\* C37: the answer to a request whose exchange was resolved by a reply of
\* the device is 200 with status 'ok' and the reply as response, and the
\* answer to a request with an exchange is 500 only when the exchange was
\* resolved by a subscribe failure, a publish failure or the timeout.
ReplyReportedAsSuccess ==
    http.state = "answered" /\ calls[1].pc # "idle"
    => /\ calls[1].resolvedBy = "reply"
          => /\ http.status = 200
             /\ http.json.status = "ok"
             /\ http.json.response = calls[1].result
       /\ http.status = 500
          => calls[1].resolvedBy \in {"subscribe", "publish", "timeout"}

(***************************************************************************)
(* Commands on a client on which every device is monitored: both           *)
(* subscriptions of subscribeToDeviceCommunication were granted for each   *)
(* device before the first command.                                        *)
(***************************************************************************)
RECURSIVE TelemetryListeners(_)
TelemetryListeners(D) ==
    IF D = {} THEN <<>>
    ELSE LET d == CHOOSE x \in D : \A y \in D : x <= y
         IN <<TelemetryListener(d)>> \o TelemetryListeners(D \ {d})

MonitoredInit ==
    /\ calls = [c \in Calls |-> IdleCall]
    /\ client = [subs |-> UNION {{StatusTopic(d), HeartbeatTopic(d)} : d \in DeviceIds},
                 listeners |-> TelemetryListeners(DeviceIds),
                 outbox |-> <<>>]
    /\ now = 0
    /\ delivered = 0
    /\ faults = 0
    /\ errors = 0
    /\ CallerInit
    /\ MonitorInit

MonitoredNext ==
    \/ \E d \in DeviceIds : SetDeviceDefective(d)
    \/ \E i \in 1..MaxEscalations : StatusUpdateDone(i)
    \/ \E i \in 1..MaxEscalations : InterventionDone(i)
    \/ SubscribeCallback(1)
    \/ PublishCallback(1)
    \/ DeliverOnSharedClient
    \/ TimeoutFires(1)
    \/ Tick

MonitoredSpec == MonitoredInit /\ [][MonitoredNext]_vars

\* C35: the heartbeat topic of every monitored device stays subscribed.
HeartbeatSubscriptionKept ==
    \A d \in DeviceIds : Listening(d) => HeartbeatTopic(d) \in client.subs

\* C34: the store holds whole samples only; a sample leaves the store only
\* in a run of the monitor, and the sample that leaves is the one the store
\* held when the run began, more than 300000 ms old; a run leaves every
\* younger sample, the one recorded last included, as it is.
SweepOnLatestSample ==
    [][\A d \in DeviceIds :
          LET key == DeviceKey(d)
          IN /\ key \in DOMAIN store' => store'[key] \in StoredSamples
             /\ key \in DOMAIN store /\ key \notin DOMAIN store'
                => /\ Sweep
                   /\ wall - store[key].timestamp * 1000 > 300000
             /\ Sweep /\ key \in DOMAIN store
                      /\ wall - store[key].timestamp * 1000 <= 300000
                => key \in DOMAIN store' /\ store'[key] = store[key]]_vars

\* the monitor has escalated the device on its sample of time 0 and has
\* purged it; the device has sent a sample of time 300 since, which the
\* store holds at 300001
SweepOnLatestSampleWitness ==
    /\ wall = HEARTBEAT_TIMEOUT + 1
    /\ Len(escalations) = 1
    /\ escalations[1].deviceId = ReturningDevice
    /\ DeviceKey(ReturningDevice) \in DOMAIN store
    /\ store[DeviceKey(ReturningDevice)].timestamp = 300

(***************************************************************************)
(* The monitor under its timer: setInterval keeps calling it, so a run     *)
(* that has something to do is not put off for ever while the process      *)
(* runs.  The storage calls of the escalations and the status request are  *)
(* what can end it.                                                        *)
(***************************************************************************)
\* nothing in the program writes the risk table, so the runs start with
\* it empty
FairSweepInit ==
    /\ CorrelatorInit
    /\ CallerInit
    /\ wall \in ClockInstants
    /\ store \in SampleTables
    /\ \A k \in DOMAIN store : store[k].timestamp * 1000 <= wall
    /\ risky = EmptyObject
    /\ dbStatus = [d \in DeviceIds |-> "connected"]
    /\ interventions = <<>>
    /\ escalations = <<>>
    /\ analysed = NotAnalysed

FairSweepNext ==
    \/ AdvanceClock
    \/ Sweep
    \/ \E i \in 1..MaxEscalations : StatusUpdateDone(i)
    \/ \E i \in 1..MaxEscalations : InterventionDone(i)
    \/ \E d \in DeviceIds : RequestDeviceStatus(d)

FairSweepSpec == FairSweepInit /\ [][FairSweepNext]_vars /\ WF_vars(Sweep)

\* the escalation of device d has been started and nothing of the device
\* is in memory
Handled(d) ==
    /\ DeviceKey(d) \notin DOMAIN store
    /\ DeviceKey(d) \notin DOMAIN risky
    /\ \E i \in 1..Len(escalations) : escalations[i].deviceId = d

\* C36: a device whose sample is more than 300000 ms old, and that sends
\* nothing more, is eventually handled: its escalation is started, with the
\* status update requested, and its sample and verdict are deleted.
StaleEventuallyHandled ==
    \A d \in DeviceIds : Overdue(d) ~> Handled(d)

(***************************************************************************)
(* The escalation of one silent device, with the exchange of the           *)
(* set_defective command that setDeviceDefective starts and does not       *)
(* await.                                                                  *)
(***************************************************************************)
SilentSample == [status |-> "Actif", metrics |-> HotMetrics, timestamp |-> 0]

\* the device has sent a breaching sample at time 0, with or without a
\* verdict made of it, and nothing since; the monitor is about to run
EscalationInit ==
    /\ CorrelatorInit
    /\ CallerInit
    /\ wall = HEARTBEAT_TIMEOUT + 1
    /\ store = Put(EmptyObject, DeviceKey(ReturningDevice), SilentSample)
    /\ risky \in {EmptyObject, Put(EmptyObject, DeviceKey(ReturningDevice), HotVerdict)}
    /\ dbStatus = [d \in DeviceIds |-> "connected"]
    /\ interventions = <<>>
    /\ escalations = <<>>
    /\ analysed = NotAnalysed

EscalationNext ==
    \/ Sweep
    \/ \E i \in 1..MaxEscalations : StatusUpdateDone(i)
    \/ \E i \in 1..MaxEscalations : InterventionDone(i)
    \/ \E c \in Calls : SubscribeCallback(c)
    \/ \E c \in Calls : PublishCallback(c)
    \/ DeliverMessage
    \/ \E c \in Calls : TimeoutFires(c)
    \/ Tick

EscalationSpec == EscalationInit /\ [][EscalationNext]_vars

\* the set_defective command for device d is among the messages handed to
\* the client
CommandSentTo(outbox, d) ==
    \E k \in 1..Len(outbox) :
        /\ outbox[k].command = "set_defective"
        /\ outbox[k].topic = StatusTopic(d)

\* C33: an escalation to defective has sent set_defective to its device; a
\* step of the exchange of that command (callback, reply, timeout) leaves
\* the escalations, the stored statuses and the interventions as they are;
\* and whatever the state of the exchange, the escalation is not held back:
\* its status update, and after it the creation of its intervention, can
\* come back.
CommandIsBestEffort ==
    [][/\ \A i \in 1..Len(escalations') :
             escalations'[i].status = "defective"
             => CommandSentTo(client'.outbox, escalations'[i].deviceId)
       /\ calls' # calls /\ Len(escalations') = Len(escalations)
          => /\ escalations' = escalations
             /\ dbStatus' = dbStatus
             /\ interventions' = interventions
       /\ \A i \in 1..Len(escalations) :
             /\ escalations[i].pc = "updating" => ENABLED StatusUpdateDone(i)
             /\ escalations[i].pc = "creating" => ENABLED InterventionDone(i)]_vars

\* the command has timed out, and the device is defective and has its
\* intervention
CommandIsBestEffortWitness ==
    /\ Len(escalations) = 1
    /\ escalations[1].status = "defective"
    /\ escalations[1].pc = "done"
    /\ dbStatus[escalations[1].deviceId] = "defective"
    /\ InterventionsOf(1) = 1
    /\ calls[1].command = "set_defective"
    /\ calls[1].resolvedBy = "timeout"

====
